---- MODULE Spec2Model ----
(***************************************************************************)
(* A model of the OFC Pineapple solver core: cards, the 5-card and 3-card  *)
(* hand evaluators, the board, the royalty / fouling / Fantasyland rules,  *)
(* the placement generators and the Monte Carlo evaluation loop of solve.  *)
(*                                                                         *)
(* Python objects that are shared by reference (OFCBoard) live in `heap`,  *)
(* a map from object names to board values, so that copy() and aliasing    *)
(* are distinguishable.  Floats that are means of integer scores are kept  *)
(* as exact fractions [num, den].                                          *)
(***************************************************************************)
EXTENDS Integers, Sequences, FiniteSets, TLC

VARIABLES
    heap,            \* object store: board objects by name
    hand,            \* GameState.hand
    dead_cards,      \* GameState.dead_cards
    round_num,       \* GameState.round_num
    num_simulations, \* argument of solve
    pc,              \* position inside solve / the driver of a specification
    options,         \* solve: the generator's output
    idx,             \* solve: index of the candidate being evaluated (1-based)
    scored_options,  \* solve: (placements, discard, ev) evaluated so far
    trial,           \* _evaluate_placement: locals of the running candidate
    result,          \* SolverResult returned by solve, or NoResult
    error,           \* the exception that ended the call, or "none"
    pre,             \* the caller's state at the time of the call
    call,            \* the last call made by a driver: arguments and outcome
    score,           \* outputs of the scoring functions on the board
    comb,            \* inputs and output of the trial-count computation
    cli              \* OFCCli: the state, the history and the objects they name

vars == << heap, hand, dead_cards, round_num, num_simulations, pc, options, idx,
           scored_options, trial, result, error, pre, call, score, comb, cli >>

-----------------------------------------------------------------------------
(* Generic sequence helpers                                                *)

Range(s) == { s[i] : i \in 1..Len(s) }

Min2(a, b) == IF a <= b THEN a ELSE b

\* the element of a one-element set: { F(x) : x \in { e } } computes e once
TheOne(S) == CHOOSE x \in S : TRUE

RECURSIVE SumSeq(_)
SumSeq(s) == IF s = << >> THEN 0 ELSE Head(s) + SumSeq(Tail(s))

\* sorted(xs, reverse=True) on integers
RECURSIVE sorted_desc(_)
sorted_desc(s) ==
    IF s = << >> THEN << >>
    ELSE LET rest == sorted_desc(Tail(s))
             x    == Head(s)
             n    == Cardinality({ i \in 1..Len(rest) : rest[i] >= x })
         IN  SubSeq(rest, 1, n) \o << x >> \o SubSeq(rest, n + 1, Len(rest))

\* the distinct elements of s in order of first occurrence
RECURSIVE Distinct(_)
Distinct(s) ==
    IF s = << >> THEN << >>
    ELSE LET init == Distinct(SubSeq(s, 1, Len(s) - 1))
             x    == s[Len(s)]
         IN  IF x \in Range(init) THEN init ELSE Append(init, x)

-----------------------------------------------------------------------------
(* Cards: card = rank * 4 + suit, rank 0 = Two .. 12 = Ace, suit 0..3      *)

DeckSize == 52

card_rank(card) == card \div 4

card_suit(card) == card % 4

\* the card of a rank and a suit (the value card_from_str computes)
Card(rank, suit) == rank * 4 + suit

-----------------------------------------------------------------------------
(* Hand evaluator                                                          *)

HAND_ROYAL_FLUSH == 1
HAND_STRAIGHT_FLUSH == 2
HAND_FOUR_KIND == 3
HAND_FULL_HOUSE == 4
HAND_FLUSH == 5
HAND_STRAIGHT == 6
HAND_THREE_KIND == 7
HAND_TWO_PAIR == 8
HAND_ONE_PAIR == 9
HAND_HIGH_CARD == 10

FRONT_THREE_KIND == 1
FRONT_ONE_PAIR == 2
FRONT_HIGH_CARD == 3

\* the ranks taken in the order of the cards, not sorted
RanksDesc_unsorted(cards) == [ i \in 1..Len(cards) |-> card_rank(cards[i]) ]

\* ranks = sorted([card_rank(c) for c in cards], reverse=True)
RanksDesc(cards) == sorted_desc([ i \in 1..Len(cards) |-> card_rank(cards[i]) ])

\* Counter(ranks): keys in insertion order, and the count of each key
Counter(ranks) ==
    [ keys  |-> Distinct(ranks),
      count |-> [ r \in Range(ranks) |->
                    Cardinality({ i \in 1..Len(ranks) : ranks[i] = r }) ] ]

\* sorted(rank_counts.values(), reverse=True)
CountsDesc(rank_counts) ==
    sorted_desc([ i \in 1..Len(rank_counts.keys) |->
                    rank_counts.count[rank_counts.keys[i]] ])

_ranks_with_count(rank_counts, n) ==
    LET Has(r) == rank_counts.count[r] = n
    IN  SelectSeq(rank_counts.keys, Has)

\* the first rank, in the Counter's iteration order, that appears n times
_rank_with_count(rank_counts, n) == Head(_ranks_with_count(rank_counts, n))

RECURSIVE _rank_key_from(_, _)
_rank_key_from(acc, sorted_ranks) ==
    IF sorted_ranks = << >> THEN acc
    ELSE _rank_key_from(acc * 13 + Head(sorted_ranks), Tail(sorted_ranks))

\* the ranks added up instead of packed in base 13
_rank_key_sum(sorted_ranks) == SumSeq(sorted_ranks)

_rank_key(sorted_ranks) == _rank_key_from(0, sorted_ranks)

\* StraightOf with the wheel ranked by its Ace
StraightOf_wheel_ace_high(ranks) ==
    LET unique_ranks == sorted_desc(Distinct(ranks))
    IN  IF Len(unique_ranks) = 5
        THEN IF unique_ranks[1] - unique_ranks[5] = 4
             THEN << TRUE, unique_ranks[1] >>
             ELSE IF unique_ranks = << 12, 3, 2, 1, 0 >>
                  THEN << TRUE, 12 >>
                  ELSE << FALSE, 0 >>
        ELSE << FALSE, 0 >>

\* (is_straight, straight_high) of evaluate_5
StraightOf(ranks) ==
    LET unique_ranks == sorted_desc(Distinct(ranks))
    IN  IF Len(unique_ranks) = 5
        THEN IF unique_ranks[1] - unique_ranks[5] = 4
             THEN << TRUE, unique_ranks[1] >>
             ELSE IF unique_ranks = << 12, 3, 2, 1, 0 >>
                  THEN << TRUE, 3 >>
                  ELSE << FALSE, 0 >>
        ELSE << FALSE, 0 >>

evaluate_5(cards) ==
    LET ranks         == RanksDesc(cards)
        is_flush      == Cardinality({ card_suit(cards[i]) : i \in 1..Len(cards) }) = 1
        st            == StraightOf(ranks)
        is_straight   == st[1]
        straight_high == st[2]
        rank_counts   == Counter(ranks)
        counts        == CountsDesc(rank_counts)
    IN  IF is_straight /\ is_flush
        THEN IF straight_high = 12
             THEN << HAND_ROYAL_FLUSH, _rank_key(ranks) >>
             ELSE << HAND_STRAIGHT_FLUSH, straight_high >>
        ELSE IF counts = << 4, 1 >>
        THEN << HAND_FOUR_KIND,
                _rank_with_count(rank_counts, 4) * 13 + _rank_with_count(rank_counts, 1) >>
        ELSE IF counts = << 3, 2 >>
        THEN << HAND_FULL_HOUSE,
                _rank_with_count(rank_counts, 3) * 13 + _rank_with_count(rank_counts, 2) >>
        ELSE IF is_flush
        THEN << HAND_FLUSH, _rank_key(ranks) >>
        ELSE IF is_straight
        THEN << HAND_STRAIGHT, straight_high >>
        ELSE IF counts = << 3, 1, 1 >>
        THEN LET kickers == sorted_desc(_ranks_with_count(rank_counts, 1))
             IN  << HAND_THREE_KIND,
                    _rank_with_count(rank_counts, 3) * 169 + kickers[1] * 13 + kickers[2] >>
        ELSE IF counts = << 2, 2, 1 >>
        THEN LET pairs == sorted_desc(_ranks_with_count(rank_counts, 2))
             IN  << HAND_TWO_PAIR,
                    pairs[1] * 169 + pairs[2] * 13 + _rank_with_count(rank_counts, 1) >>
        ELSE IF counts = << 2, 1, 1, 1 >>
        THEN LET kickers == sorted_desc(_ranks_with_count(rank_counts, 1))
             IN  << HAND_ONE_PAIR,
                    _rank_with_count(rank_counts, 2) * 2197 + kickers[1] * 169
                        + kickers[2] * 13 + kickers[3] >>
        ELSE << HAND_HIGH_CARD, _rank_key(ranks) >>

\* evaluate_5_score with the multiplier of the 3-card score
evaluate_5_score_small_multiplier(cards) ==
    LET e == evaluate_5(cards) IN e[1] * 100000 - e[2]

evaluate_5_score(cards) ==
    LET e == evaluate_5(cards) IN e[1] * 100000000 - e[2]

\* evaluate_3 with the kicker of a pair packed above the pair rank
evaluate_3_kicker_first(cards) ==
    LET ranks       == RanksDesc(cards)
        rank_counts == Counter(ranks)
        counts      == CountsDesc(rank_counts)
    IN  IF counts = << 3 >>
        THEN << FRONT_THREE_KIND, ranks[1] >>
        ELSE IF counts = << 2, 1 >>
        THEN << FRONT_ONE_PAIR,
                _rank_with_count(rank_counts, 1) * 13 + _rank_with_count(rank_counts, 2) >>
        ELSE << FRONT_HIGH_CARD, ranks[1] * 169 + ranks[2] * 13 + ranks[3] >>

evaluate_3(cards) ==
    LET ranks       == RanksDesc(cards)
        rank_counts == Counter(ranks)
        counts      == CountsDesc(rank_counts)
    IN  IF counts = << 3 >>
        THEN << FRONT_THREE_KIND, ranks[1] >>
        ELSE IF counts = << 2, 1 >>
        THEN << FRONT_ONE_PAIR,
                _rank_with_count(rank_counts, 2) * 13 + _rank_with_count(rank_counts, 1) >>
        ELSE << FRONT_HIGH_CARD, ranks[1] * 169 + ranks[2] * 13 + ranks[3] >>

evaluate_3_score(cards) ==
    LET e == evaluate_3(cards) IN e[1] * 100000 - e[2]

compare_5(hand_a, hand_b) ==
    LET score_a == evaluate_5_score(hand_a)
        score_b == evaluate_5_score(hand_b)
    IN  IF score_a < score_b THEN 1 ELSE IF score_a > score_b THEN -1 ELSE 0

compare_3(hand_a, hand_b) ==
    LET score_a == evaluate_3_score(hand_a)
        score_b == evaluate_3_score(hand_b)
    IN  IF score_a < score_b THEN 1 ELSE IF score_a > score_b THEN -1 ELSE 0

\* Front-vs-middle check used only for fouling: negative when the front row is
\* stronger than the middle row.  The front's three categories are read as the
\* 5-card categories Three of a Kind, One Pair and High Card; a middle row of a
\* better category is stronger, of a worse category weaker, and within the same
\* category the ranks that make the hand decide (trip rank; pair rank, then the
\* best kicker; the three best ranks).
FrontClassAs5(front_class) ==
    IF front_class = FRONT_THREE_KIND THEN HAND_THREE_KIND
    ELSE IF front_class = FRONT_ONE_PAIR THEN HAND_ONE_PAIR
    ELSE HAND_HIGH_CARD

compare_middle_front(middle, front) ==
    LET m   == evaluate_5(middle)
        f   == evaluate_3(front)
        fc  == FrontClassAs5(f[1])
        mrc == Counter(RanksDesc(middle))
        mr  == RanksDesc(middle)
        mkey == IF fc = HAND_THREE_KIND THEN _rank_with_count(mrc, 3)
                ELSE IF fc = HAND_ONE_PAIR
                THEN _rank_with_count(mrc, 2) * 13
                        + sorted_desc(_ranks_with_count(mrc, 1))[1]
                ELSE mr[1] * 169 + mr[2] * 13 + mr[3]
    IN  IF m[1] < fc THEN 1
        ELSE IF m[1] > fc THEN -1
        ELSE IF mkey > f[2] THEN 1
        ELSE IF mkey < f[2] THEN -1
        ELSE 0

-----------------------------------------------------------------------------
(* Board                                                                   *)

FRONT == 0
MIDDLE == 1
BACK == 2

\* list(Row): the rows in enumeration order
Rows == << FRONT, MIDDLE, BACK >>

ROW_CAPACITY(r) == IF r = FRONT THEN 3 ELSE 5

\* OFCBoard(): three empty rows
EmptyBoard == [ front |-> << >>, middle |-> << >>, back |-> << >> ]

row(board, r) ==
    IF r = FRONT THEN board.front
    ELSE IF r = MIDDLE THEN board.middle
    ELSE board.back

row_remaining(board, r) == ROW_CAPACITY(r) - Len(row(board, r))

can_place(board, r) == row_remaining(board, r) > 0

\* row_cards.append(card) on the row r
AppendToRow(board, r, card) ==
    IF r = FRONT THEN [ board EXCEPT !.front = Append(@, card) ]
    ELSE IF r = MIDDLE THEN [ board EXCEPT !.middle = Append(@, card) ]
    ELSE [ board EXCEPT !.back = Append(@, card) ]

\* place_card with the capacity test off by one
place_card_off_by_one(board, r, card) ==
    IF Len(row(board, r)) > ROW_CAPACITY(r)
    THEN [ ok |-> FALSE, board |-> board ]
    ELSE [ ok |-> TRUE, board |-> AppendToRow(board, r, card) ]

\* place_card: raises (ok = FALSE, board untouched) when the row is full
place_card(board, r, card) ==
    IF Len(row(board, r)) >= ROW_CAPACITY(r)
    THEN [ ok |-> FALSE, board |-> board ]
    ELSE [ ok |-> TRUE, board |-> AppendToRow(board, r, card) ]

total_cards(board) == Len(board.front) + Len(board.middle) + Len(board.back)

is_complete(board) == total_cards(board) = 13

is_front_full(board) == Len(board.front) = 3

is_middle_full(board) == Len(board.middle) = 5

is_back_full(board) == Len(board.back) = 5

all_cards(board) == board.front \o board.middle \o board.back

\* is_fouled with the back-vs-middle comparison the wrong way round
is_fouled_back_inverted(board) ==
    IF ~ is_complete(board) THEN FALSE
    ELSE IF evaluate_5_score(board.back) < evaluate_5_score(board.middle) THEN TRUE
    ELSE IF compare_middle_front(board.middle, board.front) < 0 THEN TRUE
    ELSE FALSE

is_fouled(board) ==
    IF ~ is_complete(board) THEN FALSE
    ELSE IF evaluate_5_score(board.back) > evaluate_5_score(board.middle) THEN TRUE
    ELSE IF compare_middle_front(board.middle, board.front) < 0 THEN TRUE
    ELSE FALSE

\* Objects.  A board object is named by the place that created it: the two
\* boards of the GameState, and the copies made by the pineapple generator
\* (board_copy), by _evaluate_placement (board) and by a trial (sim_board).
BoardRefs == { "board", "opponent_board", "board_copy", "eval_board", "sim_board" }

\* copy() returning the object itself instead of a new one
copy_aliasing(h, src, dst) == [ heap |-> h, ref |-> src ]

\* OFCBoard.copy(): a new object `dst` holding copies of the rows of `src`
copy(h, src, dst) ==
    [ heap |-> [ h EXCEPT ![dst] = [ front  |-> h[src].front,
                                     middle |-> h[src].middle,
                                     back   |-> h[src].back ] ],
      ref  |-> dst ]

\* place_card on the object `ref`
place_card_at(h, ref, r, card) ==
    LET p == place_card(h[ref], r, card)
    IN  [ ok |-> p.ok, heap |-> [ h EXCEPT ![ref] = p.board ] ]

\* an object no longer referenced is dropped from the store
Drop(h, ref) == IF ref \in { "board", "opponent_board" } THEN h
                ELSE [ h EXCEPT ![ref] = EmptyBoard ]

-----------------------------------------------------------------------------
(* Scoring                                                                 *)

BACK_ROYALTIES(hand_class) ==
    CASE hand_class = HAND_STRAIGHT       -> 2
      [] hand_class = HAND_FLUSH          -> 4
      [] hand_class = HAND_FULL_HOUSE     -> 6
      [] hand_class = HAND_FOUR_KIND      -> 10
      [] hand_class = HAND_STRAIGHT_FLUSH -> 15
      [] hand_class = HAND_ROYAL_FLUSH    -> 25
      [] OTHER                            -> 0

MIDDLE_ROYALTIES(hand_class) ==
    CASE hand_class = HAND_THREE_KIND     -> 2
      [] hand_class = HAND_STRAIGHT       -> 4
      [] hand_class = HAND_FLUSH          -> 8
      [] hand_class = HAND_FULL_HOUSE     -> 12
      [] hand_class = HAND_FOUR_KIND      -> 20
      [] hand_class = HAND_STRAIGHT_FLUSH -> 30
      [] hand_class = HAND_ROYAL_FLUSH    -> 50
      [] OTHER                            -> 0

\* the pair table starting one rank later, at the Sevens
FRONT_PAIR_ROYALTIES_from_sevens(pair_rank) ==
    IF pair_rank \in 5..12 THEN pair_rank - 4 ELSE 0

\* FRONT_PAIR_ROYALTIES.get(pair_rank, 0): ranks 4 (Six) .. 12 (Ace) earn 1 .. 9
FRONT_PAIR_ROYALTIES(pair_rank) ==
    IF pair_rank \in 4..12 THEN pair_rank - 3 ELSE 0

FRONT_TRIP_BASE_ROYALTY == 10

royalties_back(cards) ==
    IF Len(cards) # 5 THEN 0 ELSE BACK_ROYALTIES(evaluate_5(cards)[1])

royalties_middle(cards) ==
    IF Len(cards) # 5 THEN 0 ELSE MIDDLE_ROYALTIES(evaluate_5(cards)[1])

royalties_front(cards) ==
    IF Len(cards) # 3 THEN 0
    ELSE LET e == evaluate_3(cards)
         IN  IF e[1] = FRONT_THREE_KIND THEN FRONT_TRIP_BASE_ROYALTY + e[2]
             ELSE IF e[1] = FRONT_ONE_PAIR THEN FRONT_PAIR_ROYALTIES(e[2] \div 13)
             ELSE 0

\* total_royalties without the fouling check
total_royalties_ignoring_foul(board) ==
    IF ~ is_complete(board) THEN 0
    ELSE royalties_front(board.front) + royalties_middle(board.middle)
            + royalties_back(board.back)

total_royalties(board) ==
    IF ~ is_complete(board) THEN 0
    ELSE IF is_fouled(board) THEN 0
    ELSE royalties_front(board.front) + royalties_middle(board.middle)
            + royalties_back(board.back)

\* qualifies_fantasyland with the pair threshold at the Jacks
qualifies_fantasyland_from_jacks(board) ==
    IF ~ is_complete(board) \/ is_fouled(board) THEN FALSE
    ELSE LET e == evaluate_3(board.front)
         IN  IF e[1] = FRONT_THREE_KIND THEN TRUE
             ELSE IF e[1] = FRONT_ONE_PAIR THEN e[2] \div 13 >= 9
             ELSE FALSE

qualifies_fantasyland(board) ==
    IF ~ is_complete(board) \/ is_fouled(board) THEN FALSE
    ELSE LET e == evaluate_3(board.front)
         IN  IF e[1] = FRONT_THREE_KIND THEN TRUE
             ELSE IF e[1] = FRONT_ONE_PAIR THEN e[2] \div 13 >= 10
             ELSE FALSE

\* stays_fantasyland asking the back row for more than four of a kind
stays_fantasyland_back_above_quads(board) ==
    IF ~ is_complete(board) \/ is_fouled(board) THEN FALSE
    ELSE LET front_class  == evaluate_3(board.front)[1]
             middle_class == evaluate_5(board.middle)[1]
             back_class   == evaluate_5(board.back)[1]
         IN  IF front_class = FRONT_THREE_KIND THEN TRUE
             ELSE IF middle_class <= HAND_FULL_HOUSE THEN TRUE
             ELSE IF back_class < HAND_FOUR_KIND THEN TRUE
             ELSE FALSE

stays_fantasyland(board) ==
    IF ~ is_complete(board) \/ is_fouled(board) THEN FALSE
    ELSE LET front_class  == evaluate_3(board.front)[1]
             middle_class == evaluate_5(board.middle)[1]
             back_class   == evaluate_5(board.back)[1]
         IN  IF front_class = FRONT_THREE_KIND THEN TRUE
             ELSE IF middle_class <= HAND_FULL_HOUSE THEN TRUE
             ELSE IF back_class <= HAND_FOUR_KIND THEN TRUE
             ELSE FALSE

estimate_royalties(board) ==
    (IF is_front_full(board) THEN royalties_front(board.front) ELSE 0)
    + (IF is_middle_full(board) THEN royalties_middle(board.middle) ELSE 0)
    + (IF is_back_full(board) THEN royalties_back(board.back) ELSE 0)

-----------------------------------------------------------------------------
(* Values of the variables a specification does not use                    *)

NoResult == [ kind |-> "none" ]

NoTrial == [ kind |-> "none" ]

NoCall == [ kind |-> "none" ]

NoScore == [ kind |-> "none" ]

NoComb == [ kind |-> "none" ]

NoCli == [ kind |-> "none" ]

EmptyHeap == [ ref \in BoardRefs |-> EmptyBoard ]

HeapWith(board) == [ EmptyHeap EXCEPT !["board"] = board ]

SolveIdle ==
    /\ hand = << >>
    /\ dead_cards = << >>
    /\ round_num = 0
    /\ num_simulations = 0
    /\ options = << >>
    /\ idx = 0
    /\ scored_options = << >>
    /\ trial = NoTrial
    /\ result = NoResult
    /\ error = "none"
    /\ pre = NoResult

solve_vars == << hand, dead_cards, round_num, num_simulations, options, idx,
                 scored_options, trial, result, error, pre >>

-----------------------------------------------------------------------------
(* Specification SpecScore: the scoring functions applied to a board       *)

\* front rows, full and partial
FrontRows ==
    { << Card(12, 2), Card(12, 0), Card(12, 1) >>,   \* Ah Ac Ad  trips
      << Card(0, 2), Card(0, 0), Card(0, 1) >>,      \* 2h 2c 2d  trips
      << Card(10, 2), Card(10, 0), Card(0, 1) >>,    \* Qh Qc 2d  pair
      << Card(9, 2), Card(9, 0), Card(0, 1) >>,      \* Jh Jc 2d  pair
      << Card(11, 2), Card(0, 1), Card(11, 3) >>,    \* Kh 2d Ks  pair
      << Card(12, 2), Card(0, 1), Card(12, 0) >>,    \* Ah 2d Ac  pair
      << Card(3, 3), Card(3, 1), Card(11, 1) >>,     \* 5s 5d Kd  pair
      << Card(1, 0), Card(11, 1), Card(5, 3) >>,     \* 3c Kd 7s  high card
      << Card(12, 3), Card(11, 3), Card(10, 3) >>,   \* As Ks Qs  high card
      << Card(12, 2), Card(12, 0) >>,                \* two cards
      << >> }

\* middle and back rows, full and partial
FiveRows ==
    { << Card(12, 2), Card(11, 2), Card(10, 2), Card(9, 2), Card(8, 2) >>,  \* royal flush
      << Card(7, 2), Card(6, 2), Card(5, 2), Card(4, 2), Card(3, 2) >>,     \* 9-high straight flush
      << Card(12, 2), Card(12, 0), Card(12, 1), Card(12, 3), Card(0, 0) >>, \* quads
      << Card(11, 3), Card(11, 0), Card(11, 1), Card(10, 3), Card(10, 0) >>,\* Ks full of Qs
      << Card(8, 0), Card(8, 1), Card(8, 3), Card(7, 3), Card(7, 1) >>,     \* Ts full of 9s
      << Card(11, 2), Card(8, 2), Card(6, 2), Card(3, 2), Card(1, 2) >>,    \* flush
      << Card(8, 3), Card(7, 0), Card(6, 2), Card(5, 1), Card(4, 3) >>,     \* T-high straight
      << Card(12, 1), Card(0, 3), Card(1, 3), Card(2, 0), Card(3, 0) >>,    \* wheel
      << Card(11, 3), Card(5, 1), Card(11, 0), Card(2, 2), Card(11, 1) >>,  \* trip Ks
      << Card(6, 0), Card(6, 1), Card(4, 0), Card(4, 1), Card(9, 3) >>,     \* two pair
      << Card(1, 2), Card(1, 0), Card(7, 1), Card(5, 3), Card(3, 0) >>,     \* pair of 3s
      << Card(12, 3), Card(9, 1), Card(6, 3), Card(4, 2), Card(2, 1) >>,    \* ace high
      << Card(7, 1), Card(5, 0), Card(4, 0), Card(2, 3), Card(0, 3) >>,     \* nine high
      << Card(12, 3), Card(11, 1), Card(9, 1), Card(8, 1) >>,               \* four cards
      << >> }

NoRepeat(s) == Cardinality(Range(s)) = Len(s)

InitScore ==
    /\ \E f \in FrontRows, m \in FiveRows, b \in FiveRows :
          /\ NoRepeat(f \o m \o b)
          /\ heap = HeapWith([ front |-> f, middle |-> m, back |-> b ])
    /\ pc = "score"
    /\ score = NoScore
    /\ call = NoCall
    /\ comb = NoComb
    /\ cli = NoCli
    /\ SolveIdle

\* the caller asks for every score of its board
ScoreBoard ==
    /\ pc = "score"
    /\ score' = [ kind                  |-> "scores",
                  is_complete           |-> is_complete(heap["board"]),
                  is_fouled             |-> is_fouled(heap["board"]),
                  royalties_front       |-> royalties_front(heap["board"].front),
                  royalties_middle      |-> royalties_middle(heap["board"].middle),
                  royalties_back        |-> royalties_back(heap["board"].back),
                  total_royalties       |-> total_royalties(heap["board"]),
                  qualifies_fantasyland |-> qualifies_fantasyland(heap["board"]),
                  stays_fantasyland     |-> stays_fantasyland(heap["board"]) ]
    /\ pc' = "scored"
    /\ UNCHANGED << heap, call, comb, solve_vars, cli >>

NextScore == ScoreBoard

SpecScore == InitScore /\ [][NextScore]_vars

C10_TotalRoyalties ==
    pc = "scored" =>
        IF is_complete(heap["board"]) /\ ~ is_fouled(heap["board"])
        THEN score.total_royalties =
                score.royalties_front + score.royalties_middle + score.royalties_back
        ELSE score.total_royalties = 0

\* a fouled complete board whose rows carry royalties, scored 0
C10_Witness ==
    /\ pc = "scored"
    /\ is_complete(heap["board"])
    /\ is_fouled(heap["board"])
    /\ score.royalties_front > 0
    /\ score.royalties_middle > 0
    /\ score.total_royalties = 0

-----------------------------------------------------------------------------
(* Specification SpecBoard: a caller placing cards on one board            *)

\* the cards the caller places
BoardCards == { Card(12, 2), Card(0, 0) }

InitBoard ==
    /\ heap = EmptyHeap
    /\ pc = "board"
    /\ call = NoCall
    /\ score = NoScore
    /\ comb = NoComb
    /\ cli = NoCli
    /\ SolveIdle

\* board.place_card(r, card); a full row raises and the caller carries on
PlaceCard(r, card) ==
    /\ pc = "board"
    /\ LET p == place_card_at(heap, "board", r, card)
       IN  /\ heap' = p.heap
           /\ call' = [ kind   |-> "place_card",
                        row    |-> r,
                        card   |-> card,
                        raised |-> IF p.ok THEN "none" ELSE "RowFull",
                        before |-> heap["board"] ]
    /\ UNCHANGED << pc, score, comb, solve_vars, cli >>

NextBoard == \E r \in Range(Rows), card \in BoardCards : PlaceCard(r, card)

SpecBoard == InitBoard /\ [][NextBoard]_vars

\* C3: no row ever exceeds its capacity (front 3, middle 5, back 5); a
\* place_card on a row at capacity fails with RowFull and leaves the three
\* rows as they were; a successful place_card appends the card to the end of
\* its row and changes no other row.
C3_PlaceCard ==
    /\ Len(heap["board"].front) <= 3
    /\ Len(heap["board"].middle) <= 5
    /\ Len(heap["board"].back) <= 5
    /\ call # NoCall =>
        /\ (call.raised = "RowFull") <=>
              (Len(row(call.before, call.row)) = (IF call.row = FRONT THEN 3 ELSE 5))
        /\ call.raised = "RowFull" => heap["board"] = call.before
        /\ call.raised = "none" =>
              /\ row(heap["board"], call.row) = row(call.before, call.row) \o << call.card >>
              /\ \A r \in Range(Rows) \ { call.row } :
                    row(heap["board"], r) = row(call.before, r)

\* a full board on which a further place_card has just failed
C3_Witness ==
    /\ call # NoCall
    /\ call.raised = "RowFull"
    /\ total_cards(heap["board"]) = 13
    /\ heap["board"].back[5] # heap["board"].back[4]

-----------------------------------------------------------------------------
(* Placement generators                                                    *)

\* Optional[int] None
None == -1

Placement(card, r) == [ card |-> card, row |-> r ]

\* zip(cards, rows) as Placement objects
ZipPlacements(cards, rows) ==
    [ i \in 1..Min2(Len(cards), Len(rows)) |-> Placement(cards[i], rows[i]) ]

\* tuple(sorted((p.card, p.row) for p in placements)): equal exactly when the
\* two lists hold the same (card, row) pairs the same number of times
SortedPairs(placements) ==
    [ pr \in { << placements[i].card, placements[i].row >> : i \in 1..Len(placements) } |->
        Cardinality({ i \in 1..Len(placements) :
                        << placements[i].card, placements[i].row >> = pr }) ]

\* the deduplication key of an option
OptionKey(option) ==
    IF option.discard = None THEN << SortedPairs(option.placements) >>
    ELSE << SortedPairs(option.placements), option.discard >>

\* keep the first option of every key (the loop over options with the set `seen`)
FirstOfKey(opts, keys) ==
    LET First(i) == \A j \in 1..(i - 1) : keys[j] # keys[i]
    IN  SelectSeq([ i \in 1..Len(opts) |-> i ], First)

OptionsAt(opts, kept) == [ k \in 1..Len(kept) |-> opts[kept[k]] ]

Deduplicate(opts) ==
    TheOne({ OptionsAt(opts, FirstOfKey(opts, keys)) :
                keys \in { [ i \in 1..Len(opts) |-> OptionKey(opts[i]) ] } })

\* the n-th element (n = 0 ..) of product(rows, repeat=k): last position fastest
RECURSIVE Pow(_, _)
Pow(b, e) == IF e = 0 THEN 1 ELSE b * Pow(b, e - 1)

ProductAt(rows, k, n) ==
    [ i \in 1..k |-> rows[((n \div Pow(Len(rows), k - i)) % Len(rows)) + 1] ]

\* row_counts of one assignment never exceeds ROW_CAPACITY
WithinRowCapacity(row_assignment) ==
    \A r \in Range(Rows) :
        Cardinality({ i \in 1..Len(row_assignment) : row_assignment[i] = r })
            <= ROW_CAPACITY(r)

\* placements = [Placement(card=c, row=r) for c, r in zip(hand, row_assignment)]
InitialOptions(state_hand, valid) ==
    [ i \in 1..Len(valid) |->
        [ placements |-> ZipPlacements(state_hand, valid[i]), discard |-> None ] ]

\* _generate_initial_placements, after its assertion on the hand size
_generate_initial_placements(h, state_hand) ==
    [ heap    |-> h,
      options |-> TheOne({ Deduplicate(options_) :
                    options_ \in { InitialOptions(state_hand,
                        SelectSeq([ n \in 1..Pow(3, 5) |-> ProductAt(Rows, 5, n - 1) ],
                                  WithinRowCapacity)) } }) ]

\* available_rows that asks for room for both cards in one row
available_rows_with_room_for_two(board) ==
    LET Free(r) == row_remaining(board, r) > 1 IN SelectSeq(Rows, Free)

\* available_rows = [r for r in Row if state.board.can_place(r)]
available_rows(board) ==
    LET Free(r) == can_place(board, r) IN SelectSeq(Rows, Free)

\* place_cards that does not leave the discard out
place_cards_of_first_two(state_hand, discard_idx) ==
    << state_hand[1], state_hand[2] >>

\* place_cards = [hand[i] for i in range(3) if i != discard_idx]
place_cards_of(state_hand, discard_idx) ==
    LET keep == SelectSeq(<< 0, 1, 2 >>, LAMBDA i : i # discard_idx)
    IN  [ k \in 1..Len(keep) |-> state_hand[keep[k] + 1] ]

\* the loop over zip(place_cards, row_combo) on the object board_copy
RECURSIVE TryPlace(_, _, _, _)
TryPlace(h, ref, todo, placements) ==
    IF todo = << >> THEN [ heap |-> h, valid |-> TRUE, placements |-> placements ]
    ELSE IF can_place(h[ref], Head(todo).row)
         THEN TryPlace(place_card_at(h, ref, Head(todo).row, Head(todo).card).heap, ref,
                       Tail(todo), Append(placements, Head(todo)))
         ELSE [ heap |-> h, valid |-> FALSE, placements |-> placements ]

\* one row_combo accepted on the strength of available_rows alone
TryCombo_unchecked(h, place_cards, row_combo) ==
    [ heap |-> h, valid |-> TRUE, placements |-> ZipPlacements(place_cards, row_combo) ]

\* one row_combo of the pineapple generator: copy the board, place card by card
TryCombo(h, place_cards, row_combo) ==
    LET c == copy(h, "board", "board_copy")
    IN  TryPlace(c.heap, c.ref, ZipPlacements(place_cards, row_combo), << >>)

\* the two nested loops: n runs over (discard_idx, row_combo) in loop order
RECURSIVE PineappleLoop(_, _, _, _, _)
PineappleLoop(h, state_hand, rows_, n, options_) ==
    LET per == Len(rows_) * Len(rows_)
    IN  IF n >= 3 * per THEN [ heap |-> h, options |-> options_ ]
        ELSE LET discard_idx == n \div per
                 t == TryCombo(h, place_cards_of(state_hand, discard_idx),
                               ProductAt(rows_, 2, n % per))
             IN  IF t.valid /\ Len(t.placements) = 2
                 THEN PineappleLoop(t.heap, state_hand, rows_, n + 1,
                        Append(options_, [ placements |-> t.placements,
                                           discard    |-> state_hand[discard_idx + 1] ]))
                 ELSE PineappleLoop(t.heap, state_hand, rows_, n + 1, options_)

\* _generate_pineapple_placements, after its assertion on the hand size
_generate_pineapple_placements(h, state_hand) ==
    TheOne({ [ heap    |-> Drop(g.heap, "board_copy"),
               options |-> Deduplicate(g.options) ] :
             g \in { PineappleLoop(h, state_hand, available_rows(h["board"]), 0, << >>) } })

-----------------------------------------------------------------------------
(* solve, first step: the generator call                                   *)

is_initial_deal == round_num = 0

\* the hand size asserted whatever the round
hand_size_asserted_always_three(initial_deal) == 3

\* assert len(hand) == 5 in the initial generator, == 3 in the pineapple one
hand_size_asserted(initial_deal) == IF initial_deal THEN 5 ELSE 3

\* an empty option list let through
not_options_never(options_) == FALSE

\* `if not options` of solve
not_options(options_) == options_ = << >>

\* lines 112-118 of solve: pick the generator, fail on an empty list
Generate ==
    /\ pc = "call"
    /\ IF Len(hand) # hand_size_asserted(is_initial_deal)
       THEN /\ error' = "WrongHandSize"
            /\ pc' = "failed"
            /\ UNCHANGED << heap, options, idx, cli >>
       ELSE \E g \in { IF is_initial_deal
                       THEN _generate_initial_placements(heap, hand)
                       ELSE _generate_pineapple_placements(heap, hand) } :
                /\ heap' = g.heap
                /\ options' = g.options
                /\ IF not_options(g.options)
                   THEN /\ error' = "NoValidPlacements"
                        /\ pc' = "failed"
                        /\ idx' = idx
                   ELSE /\ error' = error
                        /\ pc' = "evaluate"
                        /\ idx' = 1
    /\ UNCHANGED << hand, dead_cards, round_num, num_simulations, scored_options,
                    trial, result, pre, call, score, comb, cli >>

-----------------------------------------------------------------------------
(* Specification SpecGen: the generator step of solve on every occupancy   *)

\* thirteen cards to fill a board with, none of them in a hand below
FillerCards == [ i \in 1..13 |-> DeckSize - i ]

\* the board holding f, m and b cards in its rows
BoardOfShape(f, m, b) ==
    [ front  |-> SubSeq(FillerCards, 1, f),
      middle |-> SubSeq(FillerCards, 4, 3 + m),
      back   |-> SubSeq(FillerCards, 9, 8 + b) ]

\* Ah Kh Qh Jh 2c and Jc 5d 3s
Hand5 == << Card(12, 2), Card(11, 2), Card(10, 2), Card(9, 2), Card(0, 0) >>

Hand3 == << Card(9, 0), Card(3, 1), Card(1, 3) >>

GameStateOf(board, opponent_board, hand_, dead_, round_) ==
    [ board |-> board, opponent_board |-> opponent_board, hand |-> hand_,
      dead_cards |-> dead_, round_num |-> round_ ]

\* the caller's GameState, seen through the variables
CurrentState ==
    GameStateOf(heap["board"], heap["opponent_board"], hand, dead_cards, round_num)

InitGen ==
    /\ \E f \in 0..3, m \in 0..5, b \in 0..5 :
          heap = HeapWith(BoardOfShape(f, m, b))
    /\ hand \in { Hand5, Hand3, SubSeq(Hand5, 1, 4), << >> }
    /\ round_num \in { 0, 1, 4 }
    /\ dead_cards = << >>
    /\ num_simulations = 0
    /\ pc = "call"
    /\ options = << >>
    /\ idx = 0
    /\ scored_options = << >>
    /\ trial = NoTrial
    /\ result = NoResult
    /\ error = "none"
    /\ pre = CurrentState
    /\ call = NoCall
    /\ score = NoScore
    /\ comb = NoComb
    /\ cli = NoCli

NextGen == Generate

SpecGen == InitGen /\ [][NextGen]_vars

\* number of cards an option puts into row r
CardsInto(placements, r) ==
    Cardinality({ i \in 1..Len(placements) : placements[i].row = r })

\* for p in placements: board.place_card(p.row, p.card), stopping at a raise
RECURSIVE place_all(_, _)
place_all(board, placements) ==
    IF placements = << >> THEN [ ok |-> TRUE, board |-> board ]
    ELSE IF place_card(board, Head(placements).row, Head(placements).card).ok
         THEN place_all(place_card(board, Head(placements).row, Head(placements).card).board,
                        Tail(placements))
         ELSE [ ok |-> FALSE, board |-> board ]

\* an option can be applied to the board as it is now
FitsBoard(board, placements) ==
    /\ \A r \in Range(Rows) :
          CardsInto(placements, r) <= ROW_CAPACITY(r) - Len(row(board, r))
    /\ place_all(board, placements).ok

\* C1: at round 0, whatever the board already holds, every option of the
\* initial 5-card generator puts into each row no more cards than the row has
\* free slots, so applying it with place_card never meets a full row.
C1_InitialOptionsFitBoard ==
    (pc = "evaluate" /\ round_num = 0) =>
        \A i \in 1..Len(options) : FitsBoard(heap["board"], options[i].placements)

\* C2: every option of the pineapple generator can be applied to the current
\* board: no row receives more cards than it has free slots, so a full row
\* receives none and a row with one free slot at most one.
C2_PineappleOptionsFitBoard ==
    (pc = "evaluate" /\ round_num >= 1) =>
        \A i \in 1..Len(options) : FitsBoard(heap["board"], options[i].placements)

\* options generated for a board with a full row and a row with one free slot,
\* one of them using that slot
C2_Witness ==
    /\ pc = "evaluate"
    /\ round_num >= 1
    /\ \E r \in Range(Rows) : row_remaining(heap["board"], r) = 0
    /\ \E r \in Range(Rows) :
          /\ row_remaining(heap["board"], r) = 1
          /\ \E i \in 1..Len(options) : CardsInto(options[i].placements, r) = 1

-----------------------------------------------------------------------------
(* Trial count of _evaluate_placement                                      *)

\* the cap of _max_combinations
COMBINATION_CAP == 1000000

\* the loop of _max_combinations, from iteration i with `result` so far
RECURSIVE MaxCombinationsLoop(_, _, _, _)
MaxCombinationsLoop(n, k, i, result_) ==
    IF i >= k THEN result_
    ELSE IF (result_ * (n - i)) \div (i + 1) > COMBINATION_CAP
         THEN COMBINATION_CAP
         ELSE MaxCombinationsLoop(n, k, i + 1, (result_ * (n - i)) \div (i + 1))

\* the loop with the division applied to the factor instead of the product
RECURSIVE MaxCombinationsLoop_FactorDivided(_, _, _, _)
MaxCombinationsLoop_FactorDivided(n, k, i, result_) ==
    IF i >= k THEN result_
    ELSE IF result_ * ((n - i) \div (i + 1)) > COMBINATION_CAP
         THEN COMBINATION_CAP
         ELSE MaxCombinationsLoop_FactorDivided(n, k, i + 1,
                                                result_ * ((n - i) \div (i + 1)))

_max_combinations_factor_divided(n, k) ==
    IF k > n THEN 0
    ELSE IF k = 0 \/ k = n THEN 1
    ELSE MaxCombinationsLoop_FactorDivided(n, Min2(k, n - k), 0, 1)

_max_combinations(n, k) ==
    IF k > n THEN 0
    ELSE IF k = 0 \/ k = n THEN 1
    ELSE MaxCombinationsLoop(n, Min2(k, n - k), 0, 1)

\* actual_sims = min(num_simulations, _max_combinations(len(remaining_deck), slots_needed))
actual_sims_of(requested, unseen, slots_needed) ==
    Min2(requested, _max_combinations(unseen, slots_needed))

\* number of iterations of `for _ in range(actual_sims)`
RangeLen(n) == IF n > 0 THEN n ELSE 0

-----------------------------------------------------------------------------
(* Specification SpecComb: the trial count for every population and need   *)

\* largest unseen population and largest number of empty slots considered
MaxUnseen == 49

MaxSlots == 11

\* requested trial counts: negative, none, the tests' and the shell's, and above the cap
RequestedTrials == { -1, 0, 1, 50, 100, 1000, 1500, 1000000, 1000001, 2000000 }

InitComb ==
    /\ \E n \in 0..MaxUnseen, k \in 1..MaxSlots, requested \in RequestedTrials :
          comb = [ kind |-> "in", unseen |-> n, slots_needed |-> k,
                   requested |-> requested ]
    /\ heap = EmptyHeap
    /\ pc = "comb"
    /\ call = NoCall
    /\ score = NoScore
    /\ cli = NoCli
    /\ SolveIdle

\* lines 268-270 of _evaluate_placement: the number of trials the loop runs
CountTrials ==
    /\ pc = "comb"
    /\ comb.kind = "in"
    /\ comb' = [ kind         |-> "out",
                 unseen       |-> comb.unseen,
                 slots_needed |-> comb.slots_needed,
                 requested    |-> comb.requested,
                 trials_run   |-> RangeLen(actual_sims_of(comb.requested, comb.unseen,
                                                          comb.slots_needed)) ]
    /\ UNCHANGED << heap, pc, call, score, solve_vars, cli >>

NextComb == CountTrials

SpecComb == InitComb /\ [][NextComb]_vars

\* largest value the binomial coefficients below are computed to; every
\* requested trial count is smaller
BinomialLimit == 10000000

\* C(n, k) by C(n, k) = C(n - 1, k - 1) * n / k, exact below BinomialLimit and
\* BinomialLimit from there on
RECURSIVE Binomial(_, _)
Binomial(n, k) ==
    IF k > n THEN 0
    ELSE IF k = 0 THEN 1
    ELSE Min2(BinomialLimit, (Binomial(n - 1, k - 1) * n) \div k)

\* C7 as claimed: the trials run are min(requested, C(unseen, slots_needed))
\* for every requested trial count a caller can mean
C7_TrialsAreMinOfRequestedAndBinomial ==
    (comb.kind = "out" /\ comb.requested >= 0) =>
        comb.trials_run = Min2(comb.requested, Binomial(comb.unseen, comb.slots_needed))

\* C7 as amended: the trials run are min(requested, C(unseen, slots_needed),
\* 1,000,000), and none when that is negative
C7_TrialsAreMinWithCap ==
    comb.kind = "out" =>
        comb.trials_run =
            IF comb.requested < 0 THEN 0
            ELSE Min2(comb.requested,
                      Min2(Binomial(comb.unseen, comb.slots_needed), 1000000))

\* more trials requested than there are completions: the exhaustive count runs
C7_Witness ==
    /\ comb.kind = "out"
    /\ Binomial(comb.unseen, comb.slots_needed) > 1
    /\ Binomial(comb.unseen, comb.slots_needed) < comb.requested
    /\ comb.trials_run = Binomial(comb.unseen, comb.slots_needed)

-----------------------------------------------------------------------------
(* _evaluate_placement: the score of a board and one random completion     *)

FANTASYLAND_BONUS == 8

\* the score of a fouled board, -10.0
FOUL_SCORE == -10

\* _score_board that forgets the Fantasyland bonus
_score_board_without_bonus(board) ==
    IF ~ is_complete(board) THEN estimate_royalties(board)
    ELSE IF is_fouled(board) THEN FOUL_SCORE
    ELSE total_royalties(board)

_score_board(board) ==
    IF ~ is_complete(board) THEN estimate_royalties(board)
    ELSE IF is_fouled(board) THEN FOUL_SCORE
    ELSE total_royalties(board)
            + (IF qualifies_fantasyland(board) THEN FANTASYLAND_BONUS ELSE 0)

\* while board.can_place(row) and idx < len(cards): place cards[idx]
RECURSIVE FillRow(_, _, _)
FillRow(board, r, cards) ==
    IF can_place(board, r) /\ cards # << >>
    THEN FillRow(place_card(board, r, Head(cards)).board, r, Tail(cards))
    ELSE [ board |-> board, cards |-> cards ]

\* _fill_board_greedy that starts with the front row
_fill_board_greedy_front_first(h, ref, cards) ==
    LET f == FillRow(h[ref], FRONT, cards)
        m == FillRow(f.board, MIDDLE, f.cards)
        b == FillRow(m.board, BACK, m.cards)
    IN  [ h EXCEPT ![ref] = b.board ]

\* _fill_board_greedy on the object `ref`: back, then middle, then front
_fill_board_greedy(h, ref, cards) ==
    LET b == FillRow(h[ref], BACK, cards)
        m == FillRow(b.board, MIDDLE, b.cards)
        f == FillRow(m.board, FRONT, m.cards)
    IN  [ h EXCEPT ![ref] = f.board ]

\* all_known_cards that leaves the opponent's board out
all_known_cards_without_opponent(board, opponent_board, hand_, dead_) ==
    Range(all_cards(board)) \cup Range(hand_) \cup Range(dead_)

\* GameState.all_known_cards
all_known_cards(board, opponent_board, hand_, dead_) ==
    Range(all_cards(board)) \cup Range(all_cards(opponent_board))
        \cup Range(hand_) \cup Range(dead_)

\* known after adding the placed cards and the discard
known_after(known, placements, discard) ==
    known \cup { placements[i].card : i \in 1..Len(placements) }
          \cup (IF discard # None THEN { discard } ELSE { })

\* remaining_deck = [c for c in range(52) if c not in known]
remaining_deck_of(known) ==
    LET Unseen(c) == c \notin known
    IN  SelectSeq([ i \in 1..DeckSize |-> i - 1 ], Unseen)

\* the outcomes of random.sample(population, k): k distinct cards in any order
RECURSIVE Samples(_, _)
Samples(population, k) ==
    IF k = 0 THEN { << >> }
    ELSE UNION { { << c >> \o rest : rest \in Samples(population \ { c }, k - 1) } :
                 c \in population }

\* for p in placements: board.place_card(p.row, p.card) on the object `ref`;
\* a raise leaves the loop with the cards placed so far
RECURSIVE ApplyPlacements(_, _, _)
ApplyPlacements(h, ref, placements) ==
    IF placements = << >> THEN [ ok |-> TRUE, heap |-> h ]
    ELSE IF place_card_at(h, ref, Head(placements).row, Head(placements).card).ok
         THEN ApplyPlacements(
                  place_card_at(h, ref, Head(placements).row, Head(placements).card).heap,
                  ref, Tail(placements))
         ELSE [ ok |-> FALSE, heap |-> h ]

\* An expected value: the float num / den, den > 0.  The scores are integers,
\* so sums are exact and two quotients are equal floats exactly when the
\* fractions are equal.
Ev(num, den) == [ num |-> num, den |-> den ]

EvLess(a, b) == a.num * b.den < b.num * a.den

EvEqual(a, b) == a.num * b.den = b.num * a.den

\* total_score / actual_sims if actual_sims > 0 else 0.0
MeanScore(total_score, actual_sims) ==
    IF actual_sims > 0 THEN Ev(total_score, actual_sims) ELSE Ev(0, 1)

\* a descending sort that reverses the order of equal keys
SortRanks_ties_reversed(s) ==
    [ i \in 1..Len(s) |->
        1 + Cardinality({ j \in 1..Len(s) : EvLess(s[i].ev, s[j].ev) })
          + Cardinality({ j \in (i + 1)..Len(s) : EvEqual(s[j].ev, s[i].ev) }) ] \o << >>

\* position of every element after a descending sort that keeps the order of
\* equal keys: after the greater ones and the equal ones that came before it
SortRanks(s) ==
    [ i \in 1..Len(s) |->
        1 + Cardinality({ j \in 1..Len(s) : EvLess(s[i].ev, s[j].ev) })
          + Cardinality({ j \in 1..(i - 1) : EvEqual(s[j].ev, s[i].ev) }) ] \o << >>

\* scored_options.sort(key=lambda x: x[2], reverse=True)
sort_by_ev_reverse(s) ==
    TheOne({ [ p \in 1..Len(s) |-> s[CHOOSE i \in 1..Len(s) : ranks[i] = p] ] :
             ranks \in { SortRanks(s) } })

\* the locals of one _evaluate_placement call
TrialOf(kind, i, ref, deck, slots_needed, actual_sims) ==
    [ kind |-> kind, idx |-> i, board |-> ref, remaining_deck |-> deck,
      slots_needed |-> slots_needed, actual_sims |-> actual_sims,
      done |-> 0, total_score |-> 0, draws |-> 0, ev |-> Ev(0, 1),
      fill_cards |-> << >>, sim_board |-> EmptyBoard ]

Scored(option, ev) ==
    [ placements |-> option.placements, discard |-> option.discard, ev |-> ev ]

-----------------------------------------------------------------------------
(* solve, after the generator: the evaluation loop, the sort, the result   *)

\* _evaluate_placement up to its trial loop (lines 244-268): copy the board,
\* place the cards (a full row raises RowFull out of solve), score a complete
\* board at once, otherwise prepare the trials
Evaluate_Begin ==
    /\ pc = "evaluate"
    /\ idx <= Len(options)
    /\ trial.kind # "running"
    /\ \E c \in { copy(heap, "board", "eval_board") } :
       \E a \in { ApplyPlacements(c.heap, c.ref, options[idx].placements) } :
          IF ~ a.ok
          THEN /\ pc' = "failed"
               /\ error' = "RowFull"
               /\ heap' = Drop(a.heap, c.ref)
               /\ trial' = NoTrial
               /\ UNCHANGED << idx, scored_options, cli >>
          ELSE IF is_complete(a.heap[c.ref]) \/ 13 - total_cards(a.heap[c.ref]) = 0
          THEN \E ev \in { Ev(_score_board(a.heap[c.ref]), 1) } :
                  /\ scored_options' = Append(scored_options, Scored(options[idx], ev))
                  /\ trial' = [ TrialOf("returned", idx, c.ref, << >>, 0, 0)
                                    EXCEPT !.ev = ev ]
                  /\ idx' = idx + 1
                  /\ heap' = Drop(a.heap, c.ref)
                  /\ UNCHANGED << pc, error, cli >>
          ELSE \E deck \in { remaining_deck_of(known_after(
                                all_known_cards(a.heap["board"], a.heap["opponent_board"],
                                                hand, dead_cards),
                                options[idx].placements, options[idx].discard)) } :
                  /\ trial' = TrialOf("running", idx, c.ref, deck,
                                      13 - total_cards(a.heap[c.ref]),
                                      actual_sims_of(num_simulations, Len(deck),
                                                     13 - total_cards(a.heap[c.ref])))
                  /\ heap' = a.heap
                  /\ UNCHANGED << pc, error, idx, scored_options, cli >>
    /\ UNCHANGED << hand, dead_cards, round_num, num_simulations, options, result, pre,
                    call, score, comb, cli >>

\* one pass of the trial loop (lines 270-275)
Trial ==
    /\ pc = "evaluate"
    /\ trial.kind = "running"
    /\ trial.done < trial.actual_sims
    /\ \E fill_cards \in Samples(Range(trial.remaining_deck), trial.slots_needed) :
       \E sim \in { copy(heap, trial.board, "sim_board") } :
       \E filled \in { _fill_board_greedy(sim.heap, sim.ref, fill_cards) } :
          /\ trial' = [ trial EXCEPT !.done = @ + 1,
                                     !.total_score = @ + _score_board(filled[sim.ref]),
                                     !.draws = @ + Len(fill_cards),
                                     !.fill_cards = fill_cards,
                                     !.sim_board = filled[sim.ref] ]
          /\ heap' = Drop(filled, sim.ref)
    /\ UNCHANGED << hand, dead_cards, round_num, num_simulations, pc, options, idx,
                    scored_options, result, error, pre, call, score, comb, cli >>

\* line 277 and lines 123-124 of solve: the mean is appended to scored_options
Evaluate_End ==
    /\ pc = "evaluate"
    /\ trial.kind = "running"
    /\ trial.done >= trial.actual_sims
    /\ \E ev \in { MeanScore(trial.total_score, trial.actual_sims) } :
          /\ scored_options' = Append(scored_options, Scored(options[idx], ev))
          /\ trial' = [ trial EXCEPT !.kind = "returned", !.ev = ev ]
    /\ idx' = idx + 1
    /\ heap' = Drop(heap, trial.board)
    /\ UNCHANGED << hand, dead_cards, round_num, num_simulations, pc, options, result,
                    error, pre, call, score, comb, cli >>

\* lines 127-139 of solve: sort in place, return the first element as best
Solve_Return ==
    /\ pc = "evaluate"
    /\ idx > Len(options)
    /\ trial.kind # "running"
    /\ \E sorted \in { sort_by_ev_reverse(scored_options) } :
          /\ scored_options' = sorted
          /\ result' = [ kind           |-> "SolverResult",
                         placements     |-> sorted[1].placements,
                         discard        |-> sorted[1].discard,
                         expected_value |-> sorted[1].ev,
                         simulations    |-> num_simulations,
                         all_options    |-> sorted ]
    /\ pc' = "done"
    /\ UNCHANGED << heap, hand, dead_cards, round_num, num_simulations, options, idx,
                    trial, error, pre, call, score, comb, cli >>

-----------------------------------------------------------------------------
(* Specification Spec: solve, from the call to its return or failure       *)

\* the cards of the deck in order, without those of `taken`
DeckWithout(taken) ==
    LET Free(c) == c \notin taken
    IN  SelectSeq([ i \in 1..DeckSize |-> i - 1 ], Free)

\* the first n cards of s laid out as a board, front first
BoardFromCards(s, n) ==
    [ front  |-> SubSeq(s, 1, Min2(n, 3)),
      middle |-> SubSeq(s, 4, Min2(n, 8)),
      back   |-> SubSeq(s, 9, Min2(n, 13)) ]

\* a GameState in which exactly the cards of `unseen` are unseen: the
\* opponent holds n cards and every other card is dead
StateLeaving(board, hand_, unseen, n, round_, sims) ==
    LET mine   == Range(all_cards(board)) \cup Range(hand_) \cup unseen
        others == DeckWithout(mine)
    IN  [ board |-> board, opponent_board |-> BoardFromCards(others, n),
          hand |-> hand_, dead_cards |-> SubSeq(others, n + 1, Len(others)),
          round_num |-> round_, num_simulations |-> sims ]

\* a GameState with nothing known beyond the player's board and hand
StateOf(board, hand_, round_, sims) ==
    [ board |-> board, opponent_board |-> EmptyBoard, hand |-> hand_,
      dead_cards |-> << >>, round_num |-> round_, num_simulations |-> sims ]

\* last street, 11 cards down: Qh Qc / Ts 9c 8h 7d / Ah Kh Jh Th 5h
BoardLastStreet(front) ==
    [ front  |-> front,
      middle |-> << Card(8, 3), Card(7, 0), Card(6, 2), Card(5, 1) >>,
      back   |-> << Card(12, 2), Card(11, 2), Card(9, 2), Card(8, 2), Card(3, 2) >> ]

\* fourth street, 9 cards down: 2c 3d 4h / 5c 5d 7h 8s 9c / Ah
BoardFourthStreet ==
    [ front  |-> << Card(0, 0), Card(1, 1), Card(2, 2) >>,
      middle |-> << Card(3, 0), Card(3, 1), Card(5, 2), Card(6, 3), Card(7, 0) >>,
      back   |-> << Card(12, 2) >> ]

\* second street, 7 cards down: Ac Ad / 2c 3d 7h 9s / Kc
BoardSecondStreet ==
    [ front  |-> << Card(12, 0), Card(12, 1) >>,
      middle |-> << Card(0, 0), Card(1, 1), Card(5, 2), Card(7, 3) >>,
      back   |-> << Card(11, 0) >> ]

\* the calls of solve considered
Scenarios ==
    \* last street: every option completes the board (hands 2d 6s Qs, 2d 6s Jd)
    { StateOf(BoardLastStreet(<< Card(10, 2), Card(10, 0) >>),
              << Card(0, 1), Card(4, 3), Card(10, 3) >>, 4, 1500),
      StateOf(BoardLastStreet(<< Card(4, 2), Card(4, 0) >>),
              << Card(0, 1), Card(4, 3), Card(9, 1) >>, 4, 1500) }
    \* fourth street, hand Kh Qh 2s, unseen Jh Th As: two slots left to draw
    \cup { StateLeaving(BoardFourthStreet, << Card(11, 2), Card(10, 2), Card(0, 3) >>,
                        { Card(9, 2), Card(8, 2), Card(12, 3) }, 9, 3, sims) :
           sims \in { 1, 2, 5 } }
    \* second street, 7 cards down: Ac Ad / 2c 3d 7h 9s / Kc; hand 4c 5d Jh,
    \* unseen 6c 8d Th Qs for four slots in three rows; the middle stays
    \* under the front whatever comes
    \cup { StateLeaving(BoardSecondStreet, << Card(2, 0), Card(3, 1), Card(9, 2) >>,
                        { Card(4, 0), Card(6, 1), Card(8, 2), Card(10, 3) }, 7, 2, 1) }
    \* first street on an empty board, no trials asked for
    \cup { StateOf(EmptyBoard, Hand5, 0, sims) : sims \in { 0, -1 } }
    \* first street, 7 unseen cards for 8 slots
    \cup { StateLeaving(EmptyBoard, Hand5, { Card(r, 1) : r \in 0..6 }, 13, 0, 1000) }
    \* first street asked for on a board that holds a card
    \cup { StateOf(BoardOfShape(1, 0, 0), Hand5, 0, 1000) }
    \* nothing left to place, and a hand of the wrong size
    \cup { StateOf(BoardOfShape(3, 5, 5), Hand3, 5, 1500),
           StateOf(EmptyBoard, Hand5, 1, 1500) }

Init ==
    /\ \E sc \in Scenarios :
          /\ heap = [ EmptyHeap EXCEPT !["board"] = sc.board,
                                       !["opponent_board"] = sc.opponent_board ]
          /\ hand = sc.hand
          /\ dead_cards = sc.dead_cards
          /\ round_num = sc.round_num
          /\ num_simulations = sc.num_simulations
    /\ pc = "call"
    /\ options = << >>
    /\ idx = 0
    /\ scored_options = << >>
    /\ trial = NoTrial
    /\ result = NoResult
    /\ error = "none"
    /\ pre = CurrentState
    /\ call = NoCall
    /\ score = NoScore
    /\ comb = NoComb
    /\ cli = NoCli

Next ==
    \/ Generate
    \/ Evaluate_Begin
    \/ Trial
    \/ Evaluate_End
    \/ Solve_Return

Spec == Init /\ [][Next]_vars

\* position of a returned option in the generator's enumeration
EnumerationIndex(scored) ==
    CHOOSE i \in 1..Len(options) :
        /\ options[i].placements = scored.placements
        /\ options[i].discard = scored.discard

\* C4: the list solve returns is ordered by expected value, non-increasing;
\* options of equal expected value keep the order in which the generator
\* enumerated them; the best placements, discard and expected value reported
\* are those of the first element of the list.
C4_SortedStableBestFirst ==
    pc = "done" =>
        /\ Len(result.all_options) = Len(options)
        /\ \A i, j \in 1..Len(result.all_options) :
              i < j =>
                /\ ~ EvLess(result.all_options[i].ev, result.all_options[j].ev)
                /\ EvEqual(result.all_options[i].ev, result.all_options[j].ev) =>
                      EnumerationIndex(result.all_options[i])
                          < EnumerationIndex(result.all_options[j])
        /\ result.placements = result.all_options[1].placements
        /\ result.discard = result.all_options[1].discard
        /\ result.expected_value = result.all_options[1].ev

\* solve returned a list in which the sort moved a later option ahead of an
\* earlier one and which holds options of equal expected value
C4_Witness ==
    /\ pc = "done"
    /\ \E i, j \in 1..Len(result.all_options) :
          /\ i < j
          /\ EnumerationIndex(result.all_options[i]) > EnumerationIndex(result.all_options[j])
    /\ \E i, j \in 1..Len(result.all_options) :
          /\ i < j
          /\ EvEqual(result.all_options[i].ev, result.all_options[j].ev)

\* the board a candidate's evaluation works on: the caller's board with the
\* candidate's cards placed
BoardAfter(i) == place_all(pre.board, options[i].placements).board

\* C5: solve never mutates its input: at every point of the call, and so after
\* it returns or fails, the state's player board, opponent board, hand, dead
\* cards and round number are as before the call; and the scratch board of a
\* candidate under evaluation is the caller's board plus that candidate's cards
\* only, whatever was evaluated before.
C5_InputNeverMutated ==
    /\ CurrentState = pre
    /\ trial.kind = "running" => heap[trial.board] = BoardAfter(trial.idx)

\* solve returned after evaluating several candidates with random completions
C5_Witness ==
    /\ pc = "done"
    /\ Len(result.all_options) >= 2
    /\ trial.draws > 0
    /\ pre.board # EmptyBoard
    /\ CurrentState = pre

\* the cards an option places
PlacedCards(option) == { option.placements[i].card : i \in 1..Len(option.placements) }

\* C6: every option solve returns has the shape of its round: at round 0 it
\* places each of the 5 hand cards exactly once and discards nothing; at a
\* later round it places exactly 2 distinct hand cards and discards the one
\* remaining hand card, which is not among the placed ones.
C6_OptionShapes ==
    pc = "done" =>
        \A k \in 1..Len(result.all_options) :
            LET option == result.all_options[k]
            IN  IF round_num = 0
                THEN /\ Len(option.placements) = 5
                     /\ \A h \in 1..Len(hand) :
                           Cardinality({ i \in 1..Len(option.placements) :
                                           option.placements[i].card = hand[h] }) = 1
                     /\ option.discard = None
                ELSE /\ Len(option.placements) = 2
                     /\ Cardinality(PlacedCards(option)) = 2
                     /\ PlacedCards(option) \subseteq Range(hand)
                     /\ option.discard \in Range(hand)
                     /\ option.discard \notin PlacedCards(option)
                     /\ Range(hand) = PlacedCards(option) \cup { option.discard }

\* a pineapple round returned options discarding each of the three hand cards
C6_Witness ==
    /\ pc = "done"
    /\ round_num >= 1
    /\ \A h \in 1..3 : \E k \in 1..Len(result.all_options) :
          result.all_options[k].discard = hand[h]

\* the exact score of a complete board as the claim states it
ExactScore(board) ==
    IF is_fouled(board) THEN -10
    ELSE IF qualifies_fantasyland(board) THEN total_royalties(board) + 8
    ELSE total_royalties(board)

\* C8: when a candidate's placement completes the board, its expected value
\* is computed without drawing a card and is exactly -10 if the board is
\* fouled, otherwise total royalties plus 8 if the board qualifies for
\* Fantasyland, otherwise total royalties alone.
C8_CompleteBoardExactScore ==
    /\ (trial.kind = "returned" /\ is_complete(BoardAfter(trial.idx))) =>
          /\ trial.draws = 0
          /\ trial.ev = Ev(ExactScore(BoardAfter(trial.idx)), 1)
    /\ \A k \in 1..Len(scored_options) :
          is_complete(place_all(pre.board, scored_options[k].placements).board) =>
              scored_options[k].ev
                  = Ev(ExactScore(place_all(pre.board, scored_options[k].placements).board), 1)

\* a candidate completed the board into one that qualifies for Fantasyland
C8_Witness ==
    /\ trial.kind = "returned"
    /\ is_complete(BoardAfter(trial.idx))
    /\ qualifies_fantasyland(BoardAfter(trial.idx))
    /\ total_royalties(BoardAfter(trial.idx)) > 0
    /\ trial.ev = Ev(total_royalties(BoardAfter(trial.idx)) + 8, 1)
    /\ \E k \in 1..Len(scored_options) : scored_options[k].ev = Ev(-10, 1)

-----------------------------------------------------------------------------
(* Head-to-head scoring                                                    *)

\* sum(1 for r in results if r > 0)
rows_won_of(results) == Cardinality({ i \in 1..Len(results) : results[i] > 0 })

\* rows_lost that counts a tied row as lost
rows_lost_of_counting_ties(results) ==
    Cardinality({ i \in 1..Len(results) : results[i] <= 0 })

\* sum(1 for r in results if r < 0)
rows_lost_of(results) == Cardinality({ i \in 1..Len(results) : results[i] < 0 })

\* score_head_to_head that pays no bonus for losing all three rows
score_head_to_head_no_scoop_against(my_board, opp_board) ==
    IF ~ (is_complete(my_board) /\ is_complete(opp_board))
    THEN [ raised |-> "AssertionError", value |-> 0 ]
    ELSE IF is_fouled(my_board) /\ is_fouled(opp_board)
    THEN [ raised |-> "none", value |-> 0 ]
    ELSE IF is_fouled(my_board)
    THEN [ raised |-> "none", value |-> 0 - (6 + total_royalties(opp_board)) ]
    ELSE IF is_fouled(opp_board)
    THEN [ raised |-> "none", value |-> 6 + total_royalties(my_board) ]
    ELSE LET results == << compare_3(my_board.front, opp_board.front),
                           compare_5(my_board.middle, opp_board.middle),
                           compare_5(my_board.back, opp_board.back) >>
         IN  [ raised |-> "none",
               value  |-> (rows_won_of(results) - rows_lost_of(results))
                          + (IF rows_won_of(results) = 3 THEN 3 ELSE 0)
                          + (total_royalties(my_board) - total_royalties(opp_board)) ]

\* score_head_to_head: the value returned, or the assertion that fails
score_head_to_head(my_board, opp_board) ==
    IF ~ (is_complete(my_board) /\ is_complete(opp_board))
    THEN [ raised |-> "AssertionError", value |-> 0 ]
    ELSE IF is_fouled(my_board) /\ is_fouled(opp_board)
    THEN [ raised |-> "none", value |-> 0 ]
    ELSE IF is_fouled(my_board)
    THEN [ raised |-> "none", value |-> 0 - (6 + total_royalties(opp_board)) ]
    ELSE IF is_fouled(opp_board)
    THEN [ raised |-> "none", value |-> 6 + total_royalties(my_board) ]
    ELSE LET results == << compare_3(my_board.front, opp_board.front),
                           compare_5(my_board.middle, opp_board.middle),
                           compare_5(my_board.back, opp_board.back) >>
         IN  [ raised |-> "none",
               value  |-> (rows_won_of(results) - rows_lost_of(results))
                          + (IF rows_won_of(results) = 3 THEN 3
                             ELSE IF rows_lost_of(results) = 3 THEN -3 ELSE 0)
                          + (total_royalties(my_board) - total_royalties(opp_board)) ]

-----------------------------------------------------------------------------
(* Specification SpecH2H: two boards of one deck scored against each other *)

\* rows that tie a row of FrontRows or FiveRows with other cards
TieFrontRows ==
    { << Card(1, 1), Card(11, 0), Card(5, 2) >>,     \* 3d Kc 7h  high card
      << Card(10, 1), Card(10, 3), Card(0, 3) >> }   \* Qd Qs 2s  pair

TieFiveRows ==
    { << Card(7, 0), Card(5, 1), Card(4, 1), Card(2, 2), Card(0, 2) >>,     \* nine high
      << Card(8, 0), Card(7, 1), Card(6, 3), Card(5, 2), Card(4, 0) >>,     \* T-high straight
      << Card(1, 1), Card(1, 3), Card(7, 2), Card(5, 0), Card(3, 1) >> }    \* pair of 3s

\* the rows boards are made of: some rows of FrontRows and FiveRows and the
\* rows that tie them
H2HFrontRows ==
    TieFrontRows \cup
    { << Card(12, 2), Card(12, 0), Card(12, 1) >>,   \* Ah Ac Ad  trips
      << Card(10, 2), Card(10, 0), Card(0, 1) >>,    \* Qh Qc 2d  pair
      << Card(3, 3), Card(3, 1), Card(11, 1) >>,     \* 5s 5d Kd  pair
      << Card(1, 0), Card(11, 1), Card(5, 3) >> }    \* 3c Kd 7s  high card

H2HFiveRows ==
    TieFiveRows \cup
    { << Card(12, 2), Card(11, 2), Card(10, 2), Card(9, 2), Card(8, 2) >>,  \* royal flush
      << Card(11, 3), Card(11, 0), Card(11, 1), Card(10, 3), Card(10, 0) >>,\* Ks full of Qs
      << Card(11, 2), Card(8, 2), Card(6, 2), Card(3, 2), Card(1, 2) >>,    \* flush
      << Card(8, 3), Card(7, 0), Card(6, 2), Card(5, 1), Card(4, 3) >>,     \* T-high straight
      << Card(12, 1), Card(0, 3), Card(1, 3), Card(2, 0), Card(3, 0) >>,    \* wheel
      << Card(6, 0), Card(6, 1), Card(4, 0), Card(4, 1), Card(9, 3) >>,     \* two pair
      << Card(1, 2), Card(1, 0), Card(7, 1), Card(5, 3), Card(3, 0) >>,     \* pair of 3s
      << Card(12, 3), Card(9, 1), Card(6, 3), Card(4, 2), Card(2, 1) >>,    \* ace high
      << Card(7, 1), Card(5, 0), Card(4, 0), Card(2, 3), Card(0, 3) >> }    \* nine high

\* the complete boards made of these rows, before looking at repeated cards
H2HBoards ==
    { [ front |-> f, middle |-> m, back |-> b ] :
        f \in H2HFrontRows, m \in H2HFiveRows, b \in H2HFiveRows }

InitH2H ==
    /\ \E my \in { x \in H2HBoards : NoRepeat(all_cards(x)) } \cup { EmptyBoard },
          opp \in { x \in H2HBoards : NoRepeat(all_cards(x)) } \cup { EmptyBoard } :
          /\ Range(all_cards(my)) \cap Range(all_cards(opp)) = { }
          /\ heap = [ EmptyHeap EXCEPT !["board"] = my, !["opponent_board"] = opp ]
    /\ pc = "h2h"
    /\ score = NoScore
    /\ call = NoCall
    /\ comb = NoComb
    /\ cli = NoCli
    /\ SolveIdle

\* a player scores its board against the other's: first the caller (the
\* outcome is kept in score), then the opponent (kept in call)
ScoreHeadToHead(mine, theirs) ==
    /\ pc = (IF mine = "board" THEN "h2h" ELSE "h2h_done")
    /\ \E r \in { score_head_to_head(heap[mine], heap[theirs]) } :
          IF mine = "board"
          THEN /\ score' = [ kind |-> "head_to_head", raised |-> r.raised, value |-> r.value ]
               /\ call' = call
          ELSE /\ call' = [ kind |-> "head_to_head_back", raised |-> r.raised,
                            value |-> r.value ]
               /\ score' = score
    /\ pc' = (IF mine = "board" THEN "h2h_done" ELSE "h2h_both")
    /\ UNCHANGED << heap, comb, solve_vars, cli >>

NextH2H ==
    \E sides \in { << "board", "opponent_board" >>, << "opponent_board", "board" >> } :
        ScoreHeadToHead(sides[1], sides[2])

SpecH2H == InitH2H /\ [][NextH2H]_vars

\* rows of my board that beat, and that lose to, the opponent's row
RowsWon ==
    Cardinality({ r \in { "front", "middle", "back" } :
        IF r = "front" THEN compare_3(heap["board"].front, heap["opponent_board"].front) > 0
        ELSE compare_5(heap["board"][r], heap["opponent_board"][r]) > 0 })

RowsLost ==
    Cardinality({ r \in { "front", "middle", "back" } :
        IF r = "front" THEN compare_3(heap["board"].front, heap["opponent_board"].front) < 0
        ELSE compare_5(heap["board"][r], heap["opponent_board"][r]) < 0 })

\* C11: for two complete boards the head-to-head score is 0 when both are
\* fouled; -(6 + opponent's royalties) when only mine is fouled; 6 + my
\* royalties when only the opponent's is; otherwise rows won minus rows lost,
\* plus 3 for winning all three rows or minus 3 for losing all three, plus my
\* royalties minus the opponent's. A tied row counts for neither side.
C11_HeadToHead ==
    (pc = "h2h_done" /\ is_complete(heap["board"]) /\ is_complete(heap["opponent_board"])) =>
        /\ score.raised = "none"
        /\ score.value =
              IF is_fouled(heap["board"]) /\ is_fouled(heap["opponent_board"]) THEN 0
              ELSE IF is_fouled(heap["board"])
              THEN 0 - (6 + total_royalties(heap["opponent_board"]))
              ELSE IF is_fouled(heap["opponent_board"])
              THEN 6 + total_royalties(heap["board"])
              ELSE RowsWon - RowsLost
                   + (IF RowsWon = 3 THEN 3 ELSE 0) - (IF RowsLost = 3 THEN 3 ELSE 0)
                   + total_royalties(heap["board"]) - total_royalties(heap["opponent_board"])

\* neither board fouled, all three rows lost, both boards carrying royalties
C11_Witness ==
    /\ pc = "h2h_done"
    /\ is_complete(heap["board"]) /\ is_complete(heap["opponent_board"])
    /\ ~ is_fouled(heap["board"]) /\ ~ is_fouled(heap["opponent_board"])
    /\ RowsLost = 3
    /\ total_royalties(heap["board"]) > 0
    /\ score.value = 0 - 6 + total_royalties(heap["board"])
                        - total_royalties(heap["opponent_board"])

-----------------------------------------------------------------------------
(* Hands given to the evaluator                                            *)

\* Two..Six, King and Ace: the ranks of the wheel and of the 6-high straight,
\* and two high ranks
HandRanks == { 0, 1, 2, 3, 4, 11, 12 }

\* the same without the King, for hands taken two at a time
PairedHandRanks == { 0, 1, 2, 3, 4, 12 }

\* the rank lists of n cards of one deck over the ranks R, highest first
RankLists(R, n) ==
    { s \in [ 1..n -> R ] :
        /\ \A i \in 1..(n - 1) : s[i] >= s[i + 1]
        /\ \A r \in R : Cardinality({ i \in 1..n : s[i] = r }) <= 4 }

\* cards of these ranks, not all of one suit: suits in turn
Offsuit(ranks) == [ i \in 1..Len(ranks) |-> Card(ranks[i], i % 4) ]

\* cards of these ranks, all clubs
Suited(ranks) == [ i \in 1..Len(ranks) |-> Card(ranks[i], 0) ]

\* cards of these ranks, not all of one suit: suits in turn from hearts
OtherSuits(ranks) == [ i \in 1..Len(ranks) |-> Card(ranks[i], (i + 2) % 4) ]

\* cards of these ranks, all hearts
Hearts(ranks) == [ i \in 1..Len(ranks) |-> Card(ranks[i], 2) ]

\* hands of ranks outside HandRanks: royal flush, straights up to the ace,
\* the best high card, flush and pair hands, a king-high straight flush,
\* king-high hands, and hands of the same ranks in other suits
OtherFiveHands ==
    { Suited(<< 12, 11, 10, 9, 8 >>), Offsuit(<< 12, 11, 10, 9, 8 >>),
      Suited(<< 11, 10, 9, 8, 7 >>), Offsuit(<< 11, 10, 9, 8, 7 >>),
      Suited(<< 12, 11, 10, 9, 7 >>), Offsuit(<< 12, 11, 10, 9, 7 >>),
      Offsuit(<< 12, 12, 11, 10, 9 >>), Offsuit(<< 12, 12, 11, 11, 10 >>),
      Offsuit(<< 12, 12, 12, 11, 10 >>), Offsuit(<< 5, 4, 3, 2, 1 >>),
      Suited(<< 11, 4, 3, 2, 1 >>), Offsuit(<< 11, 4, 3, 2, 1 >>),
      Hearts(<< 12, 11, 10, 9, 8 >>), Hearts(<< 12, 11, 10, 9, 7 >>),
      OtherSuits(<< 12, 11, 10, 9, 7 >>), OtherSuits(<< 12, 12, 11, 10, 9 >>),
      OtherSuits(<< 12, 3, 2, 1, 0 >>) }

\* every 5-card hand considered
FiveHandsOver(R) ==
    { Offsuit(s) : s \in RankLists(R, 5) }
    \cup { Suited(s) : s \in { t \in RankLists(R, 5) : \A i \in 1..4 : t[i] > t[i + 1] } }
    \cup OtherFiveHands

FiveHands == FiveHandsOver(HandRanks)

\* the 5-card hands compared with each other
PairedFiveHands == FiveHandsOver(PairedHandRanks)

\* every 3-card hand considered
ThreeHands ==
    { Offsuit(s) : s \in RankLists(HandRanks, 3) }
    \cup { Suited(s) : s \in { t \in RankLists(HandRanks, 3) : \A i \in 1..2 : t[i] > t[i + 1] } }
    \cup { Suited(<< 10, 9, 8 >>), Offsuit(<< 10, 9, 8 >>), Offsuit(<< 10, 10, 9 >>),
           Offsuit(<< 9, 9, 12 >>) }

\* the evaluator for the length of the hand
evaluate_hand(cards) == IF Len(cards) = 5 THEN evaluate_5(cards) ELSE evaluate_3(cards)

-----------------------------------------------------------------------------
(* Specification SpecEval: one hand evaluated in every order of its cards  *)

InitEval ==
    /\ \E cards \in FiveHands \cup ThreeHands :
          call = [ kind |-> "evaluate", first |-> cards, first_value |-> evaluate_hand(cards),
                   cards |-> cards, value |-> evaluate_hand(cards) ]
    /\ pc = "eval"
    /\ heap = EmptyHeap
    /\ score = NoScore
    /\ comb = NoComb
    /\ cli = NoCli
    /\ SolveIdle

\* the caller exchanges two neighbouring cards and evaluates the hand again
Reorder(i) ==
    /\ pc = "eval"
    /\ i < Len(call.cards)
    /\ \E cards \in { [ call.cards EXCEPT ![i] = call.cards[i + 1],
                                          ![i + 1] = call.cards[i] ] } :
          call' = [ call EXCEPT !.cards = cards, !.value = evaluate_hand(cards) ]
    /\ UNCHANGED << heap, pc, score, comb, solve_vars, cli >>

NextEval == \E i \in 1..4 : Reorder(i)

SpecEval == InitEval /\ [][NextEval]_vars

\* C12: evaluate_5 and evaluate_3 return the same (category, tie-break) pair
\* for every order of the cards of a hand.
C12_PermutationInvariant ==
    pc = "eval" => call.value = call.first_value

\* a one-pair hand evaluated with its cards in ascending order of rank
C12_Witness ==
    /\ pc = "eval"
    /\ Len(call.cards) = 5
    /\ call.cards # call.first
    /\ \A i \in 1..4 : card_rank(call.cards[i]) <= card_rank(call.cards[i + 1])
    /\ call.value[1] = HAND_ONE_PAIR
    /\ call.value = call.first_value

-----------------------------------------------------------------------------
(* Specification SpecCompare: two hands compared                           *)

\* the values compare_5 / compare_3 compute on the way to their result
Comparison(hand_a, hand_b) ==
    IF Len(hand_a) = 5
    THEN [ kind |-> "compare", hand_a |-> hand_a, hand_b |-> hand_b,
           eval_a |-> evaluate_5(hand_a), eval_b |-> evaluate_5(hand_b),
           score_a |-> evaluate_5_score(hand_a), score_b |-> evaluate_5_score(hand_b),
           result |-> compare_5(hand_a, hand_b) ]
    ELSE [ kind |-> "compare", hand_a |-> hand_a, hand_b |-> hand_b,
           eval_a |-> evaluate_3(hand_a), eval_b |-> evaluate_3(hand_b),
           score_a |-> evaluate_3_score(hand_a), score_b |-> evaluate_3_score(hand_b),
           result |-> compare_3(hand_a, hand_b) ]

InitCompare ==
    /\ \E hand_a \in PairedFiveHands \cup ThreeHands :
          call = [ kind |-> "hand", hand_a |-> hand_a ]
    /\ pc = "compare"
    /\ heap = EmptyHeap
    /\ score = NoScore
    /\ comb = NoComb
    /\ cli = NoCli
    /\ SolveIdle

\* compare_5(hand_a, hand_b)
Compare5(hand_b) ==
    /\ pc = "compare"
    /\ Len(call.hand_a) = 5
    /\ \E c \in { Comparison(call.hand_a, hand_b) } : call' = c
    /\ pc' = "compared"
    /\ UNCHANGED << heap, score, comb, solve_vars, cli >>

\* compare_3(hand_a, hand_b)
Compare3(hand_b) ==
    /\ pc = "compare"
    /\ Len(call.hand_a) = 3
    /\ \E c \in { Comparison(call.hand_a, hand_b) } : call' = c
    /\ pc' = "compared"
    /\ UNCHANGED << heap, score, comb, solve_vars, cli >>

NextCompare ==
    \/ \E hand_b \in PairedFiveHands : Compare5(hand_b)
    \/ \E hand_b \in ThreeHands : Compare3(hand_b)

SpecCompare == InitCompare /\ [][NextCompare]_vars

\* the category multiplier of the combined score of hands of n cards
CategoryMultiplier(n) == IF n = 5 THEN 100000000 ELSE 100000

\* C13: the category dominates the tie-break: a hand of a better category has
\* the strictly lower score and wins the comparison whatever the tie-break
\* values are, and every tie-break value is non-negative and smaller than the
\* category multiplier, for 5-card and 3-card hands alike.
C13_CategoryDominates ==
    pc = "compared" =>
        /\ call.eval_a[1] < call.eval_b[1] =>
              (call.score_a < call.score_b /\ call.result = 1)
        /\ call.eval_a[1] > call.eval_b[1] =>
              (call.score_a > call.score_b /\ call.result = -1)
        /\ call.eval_a[2] >= 0 /\ call.eval_a[2] < CategoryMultiplier(Len(call.hand_a))
        /\ call.eval_b[2] >= 0 /\ call.eval_b[2] < CategoryMultiplier(Len(call.hand_b))

\* the lowest pair beats the best high-card hand, whose tie-break is far greater
C13_Witness ==
    /\ pc = "compared"
    /\ call.eval_a[1] = HAND_ONE_PAIR
    /\ call.eval_b = << HAND_HIGH_CARD, _rank_key(<< 12, 11, 10, 9, 7 >>) >>
    /\ call.eval_a[2] < 1000
    /\ call.eval_b[2] > 300000
    /\ call.result = 1

\* the ranks and suits of a hand, as sets
RankSet(cards) == { card_rank(cards[i]) : i \in 1..Len(cards) }

SuitSet(cards) == { card_suit(cards[i]) : i \in 1..Len(cards) }

\* Ace, Two, Three, Four, Five, not all of one suit
IsWheel(cards) ==
    /\ Len(cards) = 5
    /\ RankSet(cards) = { 12, 0, 1, 2, 3 }
    /\ Cardinality(SuitSet(cards)) > 1

\* five consecutive ranks, not all of one suit
IsOtherStraight(cards) ==
    /\ Len(cards) = 5
    /\ Cardinality(RankSet(cards)) = 5
    /\ \E low \in 0..8 : RankSet(cards) = low..(low + 4)
    /\ Cardinality(SuitSet(cards)) > 1

\* three of a kind, two pair, one pair or high card
IsBelowStraight(cards) ==
    /\ Len(cards) = 5
    /\ Cardinality(RankSet(cards)) >= 3
    /\ Cardinality(SuitSet(cards)) > 1
    /\ ~ IsWheel(cards)
    /\ ~ IsOtherStraight(cards)

\* C14: Ace-Two-Three-Four-Five not of one suit is a Straight, and the lowest
\* one: it loses to every other straight, the Six-high straight included, and
\* beats every hand of a lower category.
C14_WheelLowestStraight ==
    (pc = "compared" /\ IsWheel(call.hand_a)) =>
        /\ call.eval_a[1] = HAND_STRAIGHT
        /\ IsOtherStraight(call.hand_b) =>
              (call.eval_b[1] = HAND_STRAIGHT /\ call.result = -1)
        /\ IsBelowStraight(call.hand_b) =>
              (call.eval_b[1] > HAND_STRAIGHT /\ call.result = 1)

\* the wheel against the Six-high straight
C14_Witness ==
    /\ pc = "compared"
    /\ IsWheel(call.hand_a)
    /\ RankSet(call.hand_b) = 0..4
    /\ IsOtherStraight(call.hand_b)
    /\ call.result = -1

\* how many cards of a hand have rank r
CountOf(cards, r) == Cardinality({ i \in 1..Len(cards) : card_rank(cards[i]) = r })

\* the ranks S of a hand, those held most often first, then the highest first
RECURSIVE OrderGroups(_, _)
OrderGroups(cards, S) ==
    IF S = {} THEN << >>
    ELSE LET best == CHOOSE r \in S : \A q \in S :
                        \/ CountOf(cards, q) < CountOf(cards, r)
                        \/ (CountOf(cards, q) = CountOf(cards, r) /\ q <= r)
         IN  << best >> \o OrderGroups(cards, S \ { best })

\* what poker compares two 5-card hands of one category by: the top card of a
\* straight (the Five for Ace to Five), else the ranks by group size and height
PokerKey(cards) ==
    IF RankSet(cards) = { 12, 0, 1, 2, 3 } THEN << 3 >>
    ELSE IF \E low \in 0..8 : RankSet(cards) = low..(low + 4)
    THEN << CHOOSE r \in RankSet(cards) : \A q \in RankSet(cards) : q <= r >>
    ELSE OrderGroups(cards, RankSet(cards))

\* 1, -1 or 0 as x comes after, before or equals y, entry by entry
RECURSIVE LexCompare(_, _)
LexCompare(x, y) ==
    IF x = << >> \/ y = << >> THEN 0
    ELSE IF Head(x) > Head(y) THEN 1
    ELSE IF Head(x) < Head(y) THEN -1
    ELSE LexCompare(Tail(x), Tail(y))

Sign(n) == IF n > 0 THEN 1 ELSE IF n < 0 THEN -1 ELSE 0

SameRanks(hand_a, hand_b) == \A r \in 0..12 : CountOf(hand_a, r) = CountOf(hand_b, r)

\* C15: two 5-card hands of the same category are ordered by their tie-break
\* integers as poker orders them: by quad rank then kicker, trip rank then
\* pair rank, trip rank then kickers, high pair, low pair then kicker, pair
\* rank then kickers, the five ranks downwards for flush and high card, the
\* top card for straights; hands of the same ranks in one category tie.
C15_TieBreakOrdersAsPoker ==
    (pc = "compared" /\ Len(call.hand_a) = 5 /\ call.eval_a[1] = call.eval_b[1]) =>
        /\ Len(PokerKey(call.hand_a)) = Len(PokerKey(call.hand_b))
        /\ Sign(call.eval_a[2] - call.eval_b[2])
              = LexCompare(PokerKey(call.hand_a), PokerKey(call.hand_b))
        /\ call.result = LexCompare(PokerKey(call.hand_a), PokerKey(call.hand_b))
        /\ SameRanks(call.hand_a, call.hand_b) => call.result = 0

\* two pairs of Twos with the same first two kickers, decided by the third
C15_Witness ==
    /\ pc = "compared"
    /\ call.eval_a[1] = HAND_ONE_PAIR
    /\ call.eval_b[1] = HAND_ONE_PAIR
    /\ PokerKey(call.hand_a) = << 0, 12, 4, 3 >>
    /\ PokerKey(call.hand_b) = << 0, 12, 4, 2 >>
    /\ call.result = 1

\* the category of three cards, from the number of different ranks alone
FrontCategory(cards) ==
    IF Cardinality(RankSet(cards)) = 1 THEN FRONT_THREE_KIND
    ELSE IF Cardinality(RankSet(cards)) = 2 THEN FRONT_ONE_PAIR
    ELSE FRONT_HIGH_CARD

\* three cards of consecutive ranks, or of one suit
LooksLikeStraightOrFlush(cards) ==
    \/ \E low \in 0..10 : RankSet(cards) = low..(low + 2)
    \/ Cardinality(RankSet(cards)) = 3 /\ Cardinality(SuitSet(cards)) = 1

\* C16: the 3-card evaluator returns Trips, Pair or High Card only: three
\* different ranks are High Card even when consecutive or of one suit; trips
\* beat every pair and a pair beats every high card; within a category the
\* trip rank, the pair rank then the kicker, or the ranks downwards decide.
C16_FrontEvaluator ==
    (pc = "compared" /\ Len(call.hand_a) = 3) =>
        /\ call.eval_a[1] = FrontCategory(call.hand_a)
        /\ call.eval_b[1] = FrontCategory(call.hand_b)
        /\ FrontCategory(call.hand_a) < FrontCategory(call.hand_b) => call.result = 1
        /\ FrontCategory(call.hand_a) > FrontCategory(call.hand_b) => call.result = -1
        /\ FrontCategory(call.hand_a) = FrontCategory(call.hand_b) =>
              call.result = LexCompare(OrderGroups(call.hand_a, RankSet(call.hand_a)),
                                       OrderGroups(call.hand_b, RankSet(call.hand_b)))

\* Queen-Jack-Ten of one suit is a high card and loses to a pair of Twos
C16_Witness ==
    /\ pc = "compared"
    /\ call.hand_a = Suited(<< 10, 9, 8 >>)
    /\ LooksLikeStraightOrFlush(call.hand_a)
    /\ call.eval_a[1] = FRONT_HIGH_CARD
    /\ FrontCategory(call.hand_b) = FRONT_ONE_PAIR
    /\ 0 \in RankSet(call.hand_b)
    /\ CountOf(call.hand_b, 0) = 2
    /\ call.result = -1

-----------------------------------------------------------------------------
(* Specification SpecRoyalty: the royalty of one row                       *)

\* front rows: a pair of every rank with a kicker above or below it, trips of
\* every rank, high cards, and rows that are not full
RoyaltyFrontRows ==
    { << Card(r, 2), Card((r + k) % 13, 1), Card(r, 0) >> : r \in 0..12, k \in { 1, 12 } }
    \cup { << Card(r, 2), Card(r, 0), Card(r, 1) >> : r \in 0..12 }
    \cup { Offsuit(<< 12, 11, 10 >>), Suited(<< 10, 9, 8 >>), Offsuit(<< 5, 2, 0 >>),
           << Card(12, 2), Card(12, 0) >>, << Card(12, 2) >> }

\* middle and back rows of every category, and rows that are not full
RoyaltyFiveRows == FiveRows \cup OtherFiveHands

InitRoyalty ==
    /\ \E cards \in RoyaltyFrontRows \cup RoyaltyFiveRows :
          call = [ kind |-> "row", cards |-> cards ]
    /\ pc = "row"
    /\ heap = EmptyHeap
    /\ score = NoScore
    /\ comb = NoComb
    /\ cli = NoCli
    /\ SolveIdle

\* royalties_front(cards)
RoyaltiesFront ==
    /\ pc = "row"
    /\ call' = [ kind |-> "royalties", row |-> FRONT, cards |-> call.cards,
                 value |-> royalties_front(call.cards) ]
    /\ pc' = "royalties"
    /\ UNCHANGED << heap, score, comb, solve_vars, cli >>

\* royalties_middle(cards)
RoyaltiesMiddle ==
    /\ pc = "row"
    /\ call' = [ kind |-> "royalties", row |-> MIDDLE, cards |-> call.cards,
                 value |-> royalties_middle(call.cards) ]
    /\ pc' = "royalties"
    /\ UNCHANGED << heap, score, comb, solve_vars, cli >>

\* royalties_back(cards)
RoyaltiesBack ==
    /\ pc = "row"
    /\ call' = [ kind |-> "royalties", row |-> BACK, cards |-> call.cards,
                 value |-> royalties_back(call.cards) ]
    /\ pc' = "royalties"
    /\ UNCHANGED << heap, score, comb, solve_vars, cli >>

NextRoyalty == RoyaltiesFront \/ RoyaltiesMiddle \/ RoyaltiesBack

SpecRoyalty == InitRoyalty /\ [][NextRoyalty]_vars

\* the largest number of cards of one rank in a hand
MaxCount(cards) ==
    CHOOSE n \in 1..4 : /\ \E r \in RankSet(cards) : CountOf(cards, r) = n
                        /\ \A r \in RankSet(cards) : CountOf(cards, r) <= n

IsStraightRanks(cards) ==
    \/ RankSet(cards) = { 12, 0, 1, 2, 3 }
    \/ \E low \in 0..8 : RankSet(cards) = low..(low + 4)

\* the poker category of five cards, from their ranks and suits alone
FiveCategory(cards) ==
    IF IsStraightRanks(cards) /\ Cardinality(SuitSet(cards)) = 1
    THEN IF RankSet(cards) = 8..12 THEN HAND_ROYAL_FLUSH ELSE HAND_STRAIGHT_FLUSH
    ELSE IF MaxCount(cards) = 4 THEN HAND_FOUR_KIND
    ELSE IF MaxCount(cards) = 3 /\ Cardinality(RankSet(cards)) = 2 THEN HAND_FULL_HOUSE
    ELSE IF Cardinality(SuitSet(cards)) = 1 THEN HAND_FLUSH
    ELSE IF IsStraightRanks(cards) THEN HAND_STRAIGHT
    ELSE IF MaxCount(cards) = 3 THEN HAND_THREE_KIND
    ELSE IF Cardinality(RankSet(cards)) = 3 THEN HAND_TWO_PAIR
    ELSE IF Cardinality(RankSet(cards)) = 4 THEN HAND_ONE_PAIR
    ELSE HAND_HIGH_CARD

\* the royalty the rules give a row of these cards
RoyaltyByRule(r, cards) ==
    IF r = FRONT
    THEN IF Len(cards) # 3 THEN 0
         ELSE IF FrontCategory(cards) = FRONT_THREE_KIND
         THEN 10 + card_rank(cards[1])
         ELSE IF FrontCategory(cards) = FRONT_ONE_PAIR
         THEN LET pair_rank == CHOOSE q \in RankSet(cards) : CountOf(cards, q) = 2
              IN  IF pair_rank >= 4 THEN pair_rank - 3 ELSE 0
         ELSE 0
    ELSE IF Len(cards) # 5 THEN 0
    ELSE IF r = MIDDLE
    THEN CASE FiveCategory(cards) = HAND_THREE_KIND     -> 2
           [] FiveCategory(cards) = HAND_STRAIGHT       -> 4
           [] FiveCategory(cards) = HAND_FLUSH          -> 8
           [] FiveCategory(cards) = HAND_FULL_HOUSE     -> 12
           [] FiveCategory(cards) = HAND_FOUR_KIND      -> 20
           [] FiveCategory(cards) = HAND_STRAIGHT_FLUSH -> 30
           [] FiveCategory(cards) = HAND_ROYAL_FLUSH    -> 50
           [] OTHER                                     -> 0
    ELSE CASE FiveCategory(cards) = HAND_STRAIGHT       -> 2
           [] FiveCategory(cards) = HAND_FLUSH          -> 4
           [] FiveCategory(cards) = HAND_FULL_HOUSE     -> 6
           [] FiveCategory(cards) = HAND_FOUR_KIND      -> 10
           [] FiveCategory(cards) = HAND_STRAIGHT_FLUSH -> 15
           [] FiveCategory(cards) = HAND_ROYAL_FLUSH    -> 25
           [] OTHER                                     -> 0

\* C17: the royalty of a row is the fixed table value of its hand: back row
\* Straight 2, Flush 4, Full House 6, Four of a Kind 10, Straight Flush 15,
\* Royal Flush 25; middle row Three of a Kind 2, Straight 4, Flush 8, Full
\* House 12, Four of a Kind 20, Straight Flush 30, Royal Flush 50; front row
\* a pair of Sixes to Aces 1 to 9, trips of Twos to Aces 10 to 22; any other
\* hand, and any row that is not full, 0.
C17_RoyaltyTables ==
    pc = "royalties" => call.value = RoyaltyByRule(call.row, call.cards)

\* a front pair of Sixes earns 1
C17_Witness ==
    /\ pc = "royalties"
    /\ call.row = FRONT
    /\ Len(call.cards) = 3
    /\ CountOf(call.cards, 4) = 2
    /\ call.value = 1

-----------------------------------------------------------------------------
(* Fantasyland, on the boards of SpecScore                                 *)

\* trips of any rank, or a pair of Queens, Kings or Aces
FrontEarnsFantasyland(front) ==
    /\ Len(front) = 3
    /\ \/ FrontCategory(front) = FRONT_THREE_KIND
       \/ \E r \in { 10, 11, 12 } : CountOf(front, r) = 2

\* C18: a board qualifies for Fantasyland exactly when it is complete, not
\* fouled, and its front row is trips of any rank or a pair of Queens, Kings
\* or Aces; a front pair of Jacks or lower, a front high card, an incomplete
\* board and a fouled board never qualify.
C18_FantasylandQualification ==
    pc = "scored" =>
        (score.qualifies_fantasyland <=>
            /\ is_complete(heap["board"])
            /\ ~ is_fouled(heap["board"])
            /\ FrontEarnsFantasyland(heap["board"].front))

\* a complete board, not fouled, with a front pair of Queens qualifies
C18_Witness ==
    /\ pc = "scored"
    /\ is_complete(heap["board"])
    /\ ~ is_fouled(heap["board"])
    /\ CountOf(heap["board"].front, 10) = 2
    /\ score.qualifies_fantasyland

-----------------------------------------------------------------------------
(* Card tokens: card_from_str and card_to_str                              *)

\* a string is the sequence of its characters
RANK_CHARS == << "2", "3", "4", "5", "6", "7", "8", "9", "T", "J", "Q", "K", "A" >>

SUIT_CHARS == << "c", "d", "h", "s" >>

\* the letters that have two cases, lower case first
Letters ==
    { << "t", "T" >>, << "j", "J" >>, << "q", "Q" >>, << "k", "K" >>, << "a", "A" >>,
      << "c", "C" >>, << "d", "D" >>, << "h", "H" >>, << "s", "S" >>, << "x", "X" >> }

\* str.upper() and str.lower() of one character
upper(ch) == IF \E l \in Letters : l[1] = ch
             THEN (CHOOSE l \in Letters : l[1] = ch)[2] ELSE ch

lower(ch) == IF \E l \in Letters : l[2] = ch
             THEN (CHOOSE l \in Letters : l[2] = ch)[1] ELSE ch

\* RANK_MAP[ch], SUIT_MAP[ch]: the position of the character, from 0
RANK_MAP(ch) == (CHOOSE i \in 1..Len(RANK_CHARS) : RANK_CHARS[i] = ch) - 1

SUIT_MAP(ch) == (CHOOSE i \in 1..Len(SUIT_CHARS) : SUIT_CHARS[i] = ch) - 1

\* card_from_str that reads the suit letter as it is written
card_from_str_case_sensitive(s) ==
    LET t == IF Len(s) = 3 /\ s[1] = "1" /\ s[2] = "0" THEN << "T", s[3] >> ELSE s
    IN  IF Len(t) # 2 THEN [ raised |-> "ValueError", value |-> -1 ]
        ELSE LET rank_ch == upper(t[1])
                 suit_ch == t[2]
             IN  IF rank_ch \notin Range(RANK_CHARS)
                 THEN [ raised |-> "ValueError", value |-> -1 ]
                 ELSE IF suit_ch \notin Range(SUIT_CHARS)
                 THEN [ raised |-> "ValueError", value |-> -1 ]
                 ELSE [ raised |-> "none",
                        value  |-> RANK_MAP(rank_ch) * 4 + SUIT_MAP(suit_ch) ]

card_from_str(s) ==
    LET t == IF Len(s) = 3 /\ s[1] = "1" /\ s[2] = "0" THEN << "T", s[3] >> ELSE s
    IN  IF Len(t) # 2 THEN [ raised |-> "ValueError", value |-> -1 ]
        ELSE LET rank_ch == upper(t[1])
                 suit_ch == lower(t[2])
             IN  IF rank_ch \notin Range(RANK_CHARS)
                 THEN [ raised |-> "ValueError", value |-> -1 ]
                 ELSE IF suit_ch \notin Range(SUIT_CHARS)
                 THEN [ raised |-> "ValueError", value |-> -1 ]
                 ELSE [ raised |-> "none",
                        value  |-> RANK_MAP(rank_ch) * 4 + SUIT_MAP(suit_ch) ]

card_to_str(card) == << RANK_CHARS[card_rank(card) + 1], SUIT_CHARS[card_suit(card) + 1] >>

\* the characters tokens are written with
TokenChars ==
    Range(RANK_CHARS) \cup { l[1] : l \in Letters } \cup { l[2] : l \in Letters }
        \cup { "1", "0" }

\* tokens of two characters, of one, of none, and of three
Tokens ==
    { << a, b >> : a \in TokenChars, b \in TokenChars }
    \cup { << a >> : a \in TokenChars }
    \cup { << >> }
    \cup { << "1", "0", b >> : b \in TokenChars }
    \cup { << "A", "h", "s" >>, << "1", "1", "h" >>, << "T", "0", "h" >> }

\* the same token with the case of its last letter changed
OtherSuitCase(s) ==
    [ i \in 1..Len(s) |->
        IF i < Len(s) THEN s[i]
        ELSE IF upper(s[i]) # s[i] THEN upper(s[i]) ELSE lower(s[i]) ]

InitCard ==
    /\ \/ \E token \in Tokens : call = [ kind |-> "token", token |-> token ]
       \/ \E card \in 0..(DeckSize - 1) : call = [ kind |-> "card", card |-> card ]
    /\ pc = "card"
    /\ heap = EmptyHeap
    /\ score = NoScore
    /\ comb = NoComb
    /\ cli = NoCli
    /\ SolveIdle

\* card_from_str(token)
Parse ==
    /\ pc = "card"
    /\ call.kind = "token"
    /\ \E p \in { card_from_str(call.token) } :
          call' = [ kind |-> "parsed", token |-> call.token,
                    raised |-> p.raised, value |-> p.value ]
    /\ UNCHANGED << pc, heap, score, comb, solve_vars, cli >>

\* card_to_str(card_from_str(token))
FormatParsed ==
    /\ pc = "card"
    /\ call.kind = "parsed"
    /\ call.raised = "none"
    /\ call' = [ kind |-> "token_round_trip", token |-> call.token,
                 value |-> call.value, formatted |-> card_to_str(call.value) ]
    /\ UNCHANGED << pc, heap, score, comb, solve_vars, cli >>

\* card_from_str of the same token with its suit letter in the other case
ParseOtherCase ==
    /\ pc = "card"
    /\ call.kind = "parsed"
    /\ Len(call.token) >= 2
    /\ OtherSuitCase(call.token) # call.token
    /\ \E p \in { card_from_str(OtherSuitCase(call.token)) } :
          call' = [ kind |-> "both_cases", token |-> call.token,
                    raised |-> call.raised, value |-> call.value,
                    other |-> OtherSuitCase(call.token) \o << >>,
                    other_raised |-> p.raised, other_value |-> p.value ]
    /\ UNCHANGED << pc, heap, score, comb, solve_vars, cli >>

\* card_to_str(card)
Format ==
    /\ pc = "card"
    /\ call.kind = "card"
    /\ call' = [ kind |-> "formatted", card |-> call.card, token |-> card_to_str(call.card) ]
    /\ UNCHANGED << pc, heap, score, comb, solve_vars, cli >>

\* card_from_str(card_to_str(card))
ParseFormatted ==
    /\ pc = "card"
    /\ call.kind = "formatted"
    /\ \E p \in { card_from_str(call.token) } :
          call' = [ kind |-> "card_round_trip", card |-> call.card, token |-> call.token,
                    raised |-> p.raised, value |-> p.value ]
    /\ UNCHANGED << pc, heap, score, comb, solve_vars, cli >>

NextCard == Parse \/ FormatParsed \/ ParseOtherCase \/ Format \/ ParseFormatted

SpecCard == InitCard /\ [][NextCard]_vars

\* a rank character of RANK_CHARS followed by a lower-case suit
IsCanonical(token) ==
    /\ Len(token) = 2
    /\ token[1] \in { "2", "3", "4", "5", "6", "7", "8", "9", "T", "J", "Q", "K", "A" }
    /\ token[2] \in { "c", "d", "h", "s" }

\* C19: parsing and formatting are inverse: the formatted token of every card
\* 0..51 parses back to that card, every canonical token (rank character and
\* lower-case suit) parses and formats back to itself, and two tokens that
\* differ only in the case of the suit letter parse to the same card.
C19_ParseFormatInverse ==
    /\ call.kind = "card_round_trip" =>
          (call.raised = "none" /\ call.value = call.card)
    /\ (call.kind = "parsed" /\ IsCanonical(call.token)) => call.raised = "none"
    /\ (call.kind = "token_round_trip" /\ IsCanonical(call.token)) =>
          call.formatted = call.token
    /\ call.kind = "both_cases" =>
          (call.other_raised = call.raised /\ call.other_value = call.value)

\* the Ten of spades: token Ts, card 35, and back
C19_Witness ==
    /\ call.kind = "token_round_trip"
    /\ call.token = << "T", "s" >>
    /\ call.value = 35
    /\ call.formatted = << "T", "s" >>

-----------------------------------------------------------------------------
(* Specification SpecDeck: deal and remove on one Deck                     *)

\* the largest number of cards asked of deal
MaxDeal == 5

\* the cards left in the deck when the sequence starts: Deck() after
\* remove(*cards) of every other card
DeckCards == { Card(12, 2), Card(11, 2), Card(5, 3), Card(0, 0) }

\* a card that is not in the deck from the start
AbsentCard == Card(12, 3)

\* Deck.remove(*cards): discard each card; an absent card changes nothing
remove(remaining, cards) == remaining \ cards

\* Deck.deal that returns the sample and leaves the cards in the deck
deal_keeping_cards(remaining, n, sample) ==
    IF n > Cardinality(remaining)
    THEN [ raised |-> "ValueError", dealt |-> << >>, remaining |-> remaining ]
    ELSE [ raised |-> "none", dealt |-> sample, remaining |-> remaining ]

\* Deck.deal(n), where sample is the outcome of random.sample(sorted(remaining), n)
deal(remaining, n, sample) ==
    IF n > Cardinality(remaining)
    THEN [ raised |-> "ValueError", dealt |-> << >>, remaining |-> remaining ]
    ELSE [ raised |-> "none", dealt |-> sample, remaining |-> remaining \ Range(sample) ]

\* call holds the deck (self._remaining), the last operation with the deck
\* before it, and the cards dealt and removed by the operations before
InitDeck ==
    /\ call = [ kind |-> "deck", remaining |-> DeckCards, op |-> "new", n |-> 0,
                raised |-> "none", dealt |-> << >>, before |-> DeckCards,
                dealt_before |-> {}, removed_before |-> {} ]
    /\ pc = "deck"
    /\ heap = EmptyHeap
    /\ score = NoScore
    /\ comb = NoComb
    /\ cli = NoCli
    /\ SolveIdle

\* what earlier operations dealt and removed, the last one included
DealtSoFar == call.dealt_before \cup Range(call.dealt)

RemovedSoFar == call.removed_before \cup (IF call.op = "remove" THEN { call.n } ELSE {})

\* deck.deal(n)
Deal(n) ==
    /\ pc = "deck"
    /\ \E sample \in (IF n > Cardinality(call.remaining) THEN { << >> }
                      ELSE Samples(call.remaining, n)) :
          \E d \in { deal(call.remaining, n, sample) } :
             call' = [ kind |-> "deck", remaining |-> d.remaining, op |-> "deal", n |-> n,
                       raised |-> d.raised, dealt |-> d.dealt, before |-> call.remaining,
                       dealt_before |-> DealtSoFar, removed_before |-> RemovedSoFar ]
    /\ UNCHANGED << pc, heap, score, comb, solve_vars, cli >>

\* deck.remove(card)
Remove(card) ==
    /\ pc = "deck"
    /\ call' = [ kind |-> "deck", remaining |-> remove(call.remaining, { card }),
                 op |-> "remove", n |-> card,
                 raised |-> "none", dealt |-> << >>, before |-> call.remaining,
                 dealt_before |-> DealtSoFar, removed_before |-> RemovedSoFar ]
    /\ UNCHANGED << pc, heap, score, comb, solve_vars, cli >>

NextDeck ==
    \/ \E n \in 0..MaxDeal : Deal(n)
    \/ \E card \in DeckCards \cup { AbsentCard } : Remove(card)

SpecDeck == InitDeck /\ [][NextDeck]_vars

\* C20: over any sequence of deal and remove, deal(n) with n at most the
\* remaining count returns n pairwise distinct cards that were all in the deck
\* just before and are absent just after, none of them dealt or removed
\* before, and lowers the size by exactly n; deal(n) with n above the
\* remaining count fails and leaves the deck unchanged.
C20_DealWithoutReplacement ==
    (pc = "deck" /\ call.op = "deal") =>
        IF call.n <= Cardinality(call.before)
        THEN /\ call.raised = "none"
             /\ Len(call.dealt) = call.n
             /\ Cardinality(Range(call.dealt)) = call.n
             /\ Range(call.dealt) \subseteq call.before
             /\ Range(call.dealt) \cap call.remaining = {}
             /\ Range(call.dealt) \cap call.dealt_before = {}
             /\ Range(call.dealt) \cap call.removed_before = {}
             /\ Cardinality(call.remaining) = Cardinality(call.before) - call.n
        ELSE /\ call.raised = "ValueError"
             /\ call.dealt = << >>
             /\ call.remaining = call.before

\* a deal of the two cards left after an earlier deal and a remove
C20_Witness ==
    /\ pc = "deck"
    /\ call.op = "deal"
    /\ call.n = 2
    /\ call.raised = "none"
    /\ Cardinality(call.dealt_before) = 1
    /\ Cardinality(call.removed_before \cap DeckCards) = 1
    /\ call.dealt_before \cap call.removed_before = {}
    /\ call.remaining = {}

-----------------------------------------------------------------------------
(* Failures of solve, on the states of SpecGen                             *)

\* the free slots of a board
FreeSlots(board) ==
    row_remaining(board, FRONT) + row_remaining(board, MIDDLE) + row_remaining(board, BACK)

\* C21: solve fails with NoValidPlacements, returning no result, whenever the
\* generator yields no option, and never goes on with an empty option list;
\* on a pineapple round with a 3-card hand the generator yields no option
\* exactly when the board has fewer than 2 free slots.
C21_NoValidPlacements ==
    (pc # "call" /\ error # "WrongHandSize") =>
        /\ options = << >> <=> (pc = "failed" /\ error = "NoValidPlacements")
        /\ pc = "failed" => (result = NoResult /\ scored_options = << >>)
        /\ (round_num >= 1 /\ Len(hand) = 3) =>
              (options = << >> <=> FreeSlots(pre.board) < 2)

\* a pineapple deal on a board with one free slot: no option, no result
C21_Witness ==
    /\ pc = "failed"
    /\ error = "NoValidPlacements"
    /\ round_num >= 1
    /\ Len(hand) = 3
    /\ FreeSlots(pre.board) = 1
    /\ options = << >>
    /\ result = NoResult

\* C22: solve fails with WrongHandSize, returning no result and evaluating no
\* candidate, whenever the round is 0 and the hand does not hold exactly 5
\* cards, or the round is 1 or later and the hand does not hold exactly 3.
C22_WrongHandSize ==
    (pc # "call" /\ ((round_num = 0 /\ Len(hand) # 5) \/ (round_num >= 1 /\ Len(hand) # 3))) =>
        /\ pc = "failed"
        /\ error = "WrongHandSize"
        /\ result = NoResult
        /\ options = << >>
        /\ scored_options = << >>
        /\ trial = NoTrial

\* a 5-card hand on a pineapple round
C22_Witness ==
    /\ pc = "failed"
    /\ error = "WrongHandSize"
    /\ round_num >= 1
    /\ Len(hand) = 5
    /\ result = NoResult

-----------------------------------------------------------------------------
(* Staying in Fantasyland, on the boards of SpecScore                      *)

\* C23: stays_fantasyland is true for a complete board that is not fouled
\* whenever its middle row is a full house or better or its back row is four
\* of a kind or better, whatever the front row holds, and whenever its front
\* row is trips; it is false for every incomplete and every fouled board.
C23_StaysFantasyland ==
    pc = "scored" =>
        IF is_complete(heap["board"]) /\ ~ is_fouled(heap["board"])
        THEN (\/ FiveCategory(heap["board"].middle) <= HAND_FULL_HOUSE
              \/ FiveCategory(heap["board"].back) <= HAND_FOUR_KIND
              \/ FrontCategory(heap["board"].front) = FRONT_THREE_KIND)
                => score.stays_fantasyland
        ELSE ~ score.stays_fantasyland

\* four of a kind in the back under a weaker middle and a front that is not
\* trips
C23_Witness ==
    /\ pc = "scored"
    /\ is_complete(heap["board"])
    /\ ~ is_fouled(heap["board"])
    /\ FiveCategory(heap["board"].back) = HAND_FOUR_KIND
    /\ FiveCategory(heap["board"].middle) > HAND_FULL_HOUSE
    /\ FrontCategory(heap["board"].front) # FRONT_THREE_KIND
    /\ score.stays_fantasyland
    /\ ~ score.qualifies_fantasyland

-----------------------------------------------------------------------------
(* Head-to-head scoring seen from both sides, on the boards of SpecH2H     *)

\* C27: head-to-head scoring is zero-sum: for two complete boards the score
\* of one against the other is the negation of the score of the other against
\* it, whichever of the two boards are fouled.
C27_HeadToHeadZeroSum ==
    (pc = "h2h_both" /\ is_complete(heap["board"]) /\ is_complete(heap["opponent_board"])) =>
        /\ score.raised = "none"
        /\ call.raised = "none"
        /\ call.value = 0 - score.value

\* only my board fouled, the opponent's carrying royalties: what I lose the
\* opponent wins
C27_Witness ==
    /\ pc = "h2h_both"
    /\ is_complete(heap["board"]) /\ is_complete(heap["opponent_board"])
    /\ is_fouled(heap["board"]) /\ ~ is_fouled(heap["opponent_board"])
    /\ total_royalties(heap["opponent_board"]) > 0
    /\ score.value = 0 - (6 + total_royalties(heap["opponent_board"]))
    /\ call.value = 6 + total_royalties(heap["opponent_board"])

-----------------------------------------------------------------------------
(* The pineapple generator is complete and free of duplicates (SpecGen)    *)

\* two cards go to rows r1 and r2 of the board when each has a free slot, and
\* two of them when both go to the same row
TakesBoth(board, r1, r2) ==
    /\ Len(board[r1]) < (IF r1 = "front" THEN 3 ELSE 5)
    /\ Len(board[r2]) < (IF r2 = "front" THEN 3 ELSE 5)
    /\ r1 = r2 => Len(board[r1]) + 2 <= (IF r1 = "front" THEN 3 ELSE 5)

RowNamed(name) == IF name = "front" THEN FRONT ELSE IF name = "middle" THEN MIDDLE ELSE BACK

\* every way to discard one card of the hand and lay the other two, in hand
\* order, on rows of the board that take them
FittingCombinations(board, hand_) ==
    { [ placements |-> << Placement(hand_[kept[1]], RowNamed(r1)),
                          Placement(hand_[kept[2]], RowNamed(r2)) >>,
        discard    |-> hand_[d] ] :
      << d, kept, r1, r2 >> \in
          { q \in ({ 1, 2, 3 } \X { << 1, 2 >>, << 1, 3 >>, << 2, 3 >> }
                     \X { "front", "middle", "back" } \X { "front", "middle", "back" }) :
              /\ q[1] \notin { q[2][1], q[2][2] }
              /\ TakesBoth(board, q[3], q[4]) } }

\* the (card, row) pairs of an option, as a set
PairsOf(option) ==
    { << option.placements[i].card, option.placements[i].row >> :
        i \in 1..Len(option.placements) }

\* C25: on a pineapple round with a 3-card hand the generator returns every
\* combination of a discarded card and two rows for the two kept cards that
\* fits the board, each exactly once; no two returned options have the same
\* set of (card, row) pairs and the same discard; on a board with at least 2
\* free slots in every row it returns exactly 27 options.
C25_PineappleOptionsComplete ==
    (pc # "call" /\ round_num >= 1 /\ Len(hand) = 3) =>
        /\ Range(options) = FittingCombinations(pre.board, hand)
        /\ Len(options) = Cardinality(FittingCombinations(pre.board, hand))
        /\ \A i, j \in 1..Len(options) :
              (PairsOf(options[i]) = PairsOf(options[j])
                 /\ options[i].discard = options[j].discard) => i = j
        /\ (\A r \in Range(Rows) : row_remaining(pre.board, r) >= 2) =>
              Len(options) = 27

\* a board with one free slot in the front and two or more in the other rows:
\* 8 row pairs fit, 24 options; and a board with room everywhere, 27 options
C25_Witness ==
    /\ pc = "evaluate"
    /\ round_num >= 1
    /\ Len(hand) = 3
    /\ row_remaining(pre.board, FRONT) = 1
    /\ row_remaining(pre.board, MIDDLE) >= 2
    /\ row_remaining(pre.board, BACK) >= 2
    /\ Len(options) = 24

-----------------------------------------------------------------------------
(* The trials of _evaluate_placement (Spec)                                *)

\* a trial has run for the option under evaluation and its locals are live
TrialRan == pc = "evaluate" /\ trial.kind = "running" /\ trial.done >= 1

\* the number of times a card lies on a board
TimesOnBoard(board, card) ==
    Cardinality({ i \in 1..Len(board.front) : board.front[i] = card })
        + Cardinality({ i \in 1..Len(board.middle) : board.middle[i] = card })
        + Cardinality({ i \in 1..Len(board.back) : board.back[i] = card })

\* C24: in every simulation trial the drawn cards fill the free slots of the
\* back row first, then the middle row, then the front row, in the order in
\* which they were drawn; the cards already on the board keep their
\* positions; after a fill with exactly slots_needed cards the board is
\* complete and each drawn card has been placed exactly once.
C24_FillOrder ==
    TrialRan =>
        LET base   == heap[trial.board]
            sim    == trial.sim_board
            drawn  == trial.fill_cards
            nb     == 5 - Len(base.back)
            nm     == 5 - Len(base.middle)
            nf     == 3 - Len(base.front)
        IN  /\ Len(drawn) = trial.slots_needed
            /\ trial.slots_needed = nb + nm + nf
            /\ sim.back = base.back \o SubSeq(drawn, 1, nb)
            /\ sim.middle = base.middle \o SubSeq(drawn, nb + 1, nb + nm)
            /\ sim.front = base.front \o SubSeq(drawn, nb + nm + 1, nb + nm + nf)
            /\ Len(sim.front) = 3 /\ Len(sim.middle) = 5 /\ Len(sim.back) = 5
            /\ \A i \in 1..Len(drawn) : TimesOnBoard(sim, drawn[i]) = 1

\* a trial on a board with two free slots in the back and one in each of the
\* other rows: the third drawn card closes the middle, the fourth the front
C24_Witness ==
    /\ TrialRan
    /\ Len(heap[trial.board].back) = 3
    /\ Len(heap[trial.board].middle) = 4
    /\ Len(heap[trial.board].front) = 2
    /\ Len(trial.fill_cards) = 4
    /\ trial.sim_board.middle[5] = trial.fill_cards[3]
    /\ trial.sim_board.front[3] = trial.fill_cards[4]

\* the cards of a list, as a set
CardsOf(cards) == { cards[i] : i \in 1..Len(cards) }

\* the cards of a board, as a set
CardsOn(board) == CardsOf(board.front) \cup CardsOf(board.middle) \cup CardsOf(board.back)

\* C26: no card drawn in a simulation trial is in the known set (the
\* player's board, the opponent's board, the hand, the dead cards, the cards
\* placed by the candidate and its discard), and the cards drawn in one trial
\* are pairwise distinct; hence every simulated complete board holds 13
\* distinct cards, none of them on the opponent's board, dead or discarded.
C26_DrawnCardsUnseen ==
    TrialRan =>
        LET drawn   == trial.fill_cards
            option  == options[trial.idx]
            discard == IF option.discard = None THEN { } ELSE { option.discard }
            placed  == { option.placements[i].card : i \in 1..Len(option.placements) }
            known   == CardsOn(heap["board"]) \cup CardsOn(heap["opponent_board"])
                         \cup CardsOf(hand) \cup CardsOf(dead_cards) \cup placed \cup discard
        IN  /\ \A i \in 1..Len(drawn) : drawn[i] \notin known
            /\ \A i, j \in 1..Len(drawn) : drawn[i] = drawn[j] => i = j
            /\ Len(all_cards(trial.sim_board)) = 13
            /\ Cardinality(CardsOn(trial.sim_board)) = 13
            /\ CardsOn(trial.sim_board)
                 \cap (CardsOn(heap["opponent_board"]) \cup CardsOf(dead_cards) \cup discard)
                 = { }

\* a trial with cards on the opponent's board, dead cards and a discard, and
\* more unseen cards than slots to fill
C26_Witness ==
    /\ TrialRan
    /\ CardsOn(heap["opponent_board"]) # { }
    /\ dead_cards # << >>
    /\ options[trial.idx].discard # None
    /\ Len(trial.remaining_deck) > trial.slots_needed
    /\ Len(trial.fill_cards) = 2

-----------------------------------------------------------------------------
(* OFCCli: the interactive shell (cli.py)                                  *)

\* snapshots the undo history holds at most
MaxHistory == 6

\* places of the shell's object store: the live state, the snapshots and one
\* more while a command replaces the live state
ObjectIds == 1..(MaxHistory + 2)

NoObject == [ kind |-> "free" ]

\* GameState(): empty boards, empty hand, no dead cards, round 0
GameState == GameStateOf(EmptyBoard, EmptyBoard, << >>, << >>, 0)

\* a new object holding `value`, at the first free place
Allocate(objects, value) ==
    LET id == CHOOSE i \in ObjectIds :
                /\ objects[i] = NoObject
                /\ \A j \in 1..(i - 1) : objects[j] # NoObject
    IN  [ objects |-> [ objects EXCEPT ![id] = value ], ref |-> id ]

\* GameState.copy() that hands the object itself back
GameState_copy_returning_self(objects, ref) == [ objects |-> objects, ref |-> ref ]

\* GameState.copy(): a new object with copies of the boards and of the lists
GameState_copy(objects, ref) ==
    Allocate(objects, GameStateOf(objects[ref].board, objects[ref].opponent_board,
                                  objects[ref].hand, objects[ref].dead_cards,
                                  objects[ref].round_num))

\* the objects reachable from the shell, numbered in the order history, state;
\* the others are garbage
Reachable(c) ==
    LET refs  == c.history \o << c.state >>
        first == SelectSeq([ i \in 1..Len(refs) |-> i ],
                           LAMBDA i : \A j \in 1..(i - 1) : refs[j] # refs[i])
        NewId(r) == CHOOSE k \in 1..Len(first) : refs[first[k]] = r
    IN  [ c EXCEPT !.objects = [ i \in ObjectIds |->
                                   IF i <= Len(first) THEN c.objects[refs[first[i]]]
                                   ELSE NoObject ],
                   !.history = [ i \in 1..Len(c.history) |-> NewId(c.history[i]) ] \o << >>,
                   !.state   = NewId(c.state) ]

\* self.history.append(self.state.copy())
_save_state(c) ==
    LET k == GameState_copy(c.objects, c.state)
    IN  [ c EXCEPT !.objects = k.objects, !.history = Append(@, k.ref) ]

\* cards_from_str on the tokens of a command line: the first token that
\* card_from_str rejects raises ValueError
cards_from_str(tokens) ==
    IF \E i \in 1..Len(tokens) : card_from_str(tokens[i]).raised # "none"
    THEN [ raised |-> "ValueError", cards |-> << >> ]
    ELSE [ raised |-> "none",
           cards  |-> [ i \in 1..Len(tokens) |-> card_from_str(tokens[i]).value ] \o << >> ]

\* the list of _generate_initial_placements for the hand Ah Kh Qh Jh 2c: the
\* generator reads the hand only, the list is the same on every board
OptionsOfHand5 == _generate_initial_placements(EmptyHeap, Hand5).options

initial_options(state_hand) ==
    IF state_hand = Hand5 THEN OptionsOfHand5
    ELSE _generate_initial_placements(EmptyHeap, state_hand).options

\* the options whose expected value may come out on top: the trials are
\* random and any option may; the shell does the same with whichever it
\* gets, and the last option of the generator stands for all of them
Winners(n) == { n }

\* solve(state) as the shell sees it: the exception it raises (hand size,
\* empty option list, a placement into a full row during evaluation), or the
\* placements and discard of the option it returns as best
solve_outcomes(state) ==
    IF Len(state.hand) # hand_size_asserted(state.round_num = 0)
    THEN { [ raised |-> "WrongHandSize" ] }
    ELSE UNION { IF not_options(opts) THEN { [ raised |-> "NoValidPlacements" ] }
                 ELSE IF \E i \in 1..Len(opts) :
                           ~ ApplyPlacements(copy(HeapWith(state.board), "board",
                                                  "eval_board").heap,
                                             "eval_board", opts[i].placements).ok
                 THEN { [ raised |-> "RowFull" ] }
                 ELSE { [ raised     |-> "none",
                          placements |-> opts[i].placements,
                          discard    |-> opts[i].discard ] : i \in Winners(Len(opts)) } :
               opts \in { IF state.round_num = 0
                          THEN initial_options(state.hand)
                          ELSE _generate_pineapple_placements(HeapWith(state.board),
                                                              state.hand).options } }

\* the state object of the shell
Live(c) == c.objects[c.state]

\* what the user sees of the shell: the live state and the snapshots, by value
Shown(c) ==
    [ state   |-> Live(c),
      history |-> [ i \in 1..Len(c.history) |-> c.objects[c.history[i]] ] \o << >> ]

\* the commands of one hand played straight through, counted: 0 on a new
\* hand, 1 after `initial`, 2 to 5 after the deals, 6 after one more deal;
\* -1 once anything else has happened
PlayedAfter(c, cmd, outcome) ==
    IF cmd = "new" THEN 0
    ELSE IF cmd = "initial" /\ outcome = "ok" /\ c.played = 0 THEN 1
    ELSE IF cmd = "deal" /\ outcome = "ok" /\ c.played \in 1..4 THEN c.played + 1
    ELSE IF cmd = "deal" /\ outcome \notin { "NeedCards", "InvalidCardFormat" } /\ c.played = 5
         THEN 6
    ELSE -1

\* the end of a command: garbage leaves the object store; the command and
\* its outcome are noted, with the states seen before every snapshot taken
Finished(before, after, cmd, outcome) ==
    [ Reachable(after) EXCEPT
        !.last   = [ cmd |-> cmd, outcome |-> outcome ],
        !.played = PlayedAfter(before, cmd, outcome),
        !.past   = IF Len(after.history) > Len(before.history)
                   THEN Append(before.past, Live(before))
                   ELSE SubSeq(before.past, 1, Len(after.history)) ]

\* the live state with its hand and round number assigned
Assigned(c, cards, round_) ==
    [ c EXCEPT !.objects[c.state].hand = cards, !.objects[c.state].round_num = round_ ]

\* _cmd_new: save, then a new GameState
_cmd_new(c) ==
    LET s == _save_state(c)
        n == Allocate(s.objects, GameState)
    IN  [ cli |-> [ s EXCEPT !.objects = n.objects, !.state = n.ref ], outcome |-> "ok" ]

\* for p in result.placements: place_card; hand = []; round_num = 1
initial_applied(s, r) ==
    LET placed == place_all(Live(s).board, r.placements)
    IN  IF ~ placed.ok
        THEN [ cli |-> [ s EXCEPT !.objects[s.state].board = placed.board ],
               outcome |-> "RowFull" ]
        ELSE [ cli |-> [ s EXCEPT !.objects[s.state].board = placed.board,
                                  !.objects[s.state].hand = << >>,
                                  !.objects[s.state].round_num = 1 ],
               outcome |-> "ok" ]

\* _cmd_initial after parsing: the count check, the save, the assignments,
\* solve, and the best option applied; an exception of solve ends the command
_cmd_initial(c, cards) ==
    IF Len(cards) # 5 THEN { [ cli |-> c, outcome |-> "NeedCards" ] }
    ELSE UNION { { IF r.raised # "none" THEN [ cli |-> s, outcome |-> r.raised ]
                   ELSE initial_applied(s, r) : r \in solve_outcomes(Live(s)) } :
                 s \in { Assigned(_save_state(c), cards, 0) } }

\* the best option applied without the discard joining the dead cards
deal_applied_losing_discard(s, r) ==
    LET placed == place_all(Live(s).board, r.placements)
    IN  IF ~ placed.ok
        THEN [ cli |-> [ s EXCEPT !.objects[s.state].board = placed.board ],
               outcome |-> "RowFull" ]
        ELSE [ cli |-> [ s EXCEPT
                   !.objects[s.state].board = placed.board,
                   !.objects[s.state].hand = << >>,
                   !.objects[s.state].round_num = @ + 1 ],
               outcome |-> "ok" ]

\* for p in result.placements: place_card; the discard joins the dead cards;
\* hand = []; round_num += 1
deal_applied(s, r) ==
    LET placed == place_all(Live(s).board, r.placements)
    IN  IF ~ placed.ok
        THEN [ cli |-> [ s EXCEPT !.objects[s.state].board = placed.board ],
               outcome |-> "RowFull" ]
        ELSE [ cli |-> [ s EXCEPT
                   !.objects[s.state].board = placed.board,
                   !.objects[s.state].dead_cards =
                       IF r.discard # None THEN Append(@, r.discard) ELSE @,
                   !.objects[s.state].hand = << >>,
                   !.objects[s.state].round_num = @ + 1 ],
               outcome |-> "ok" ]

\* _cmd_deal after parsing
_cmd_deal(c, cards) ==
    IF Len(cards) # 3 THEN { [ cli |-> c, outcome |-> "NeedCards" ] }
    ELSE UNION { { IF r.raised # "none" THEN [ cli |-> s, outcome |-> r.raised ]
                   ELSE deal_applied(s, r) : r \in solve_outcomes(Live(s)) } :
                 s \in { Assigned(_save_state(c), cards,
                                  IF Live(c).round_num = 0 THEN 1 ELSE Live(c).round_num) } }

\* _cmd_dead after parsing: save, then extend the dead cards
_cmd_dead(c, cards) ==
    LET s == _save_state(c)
    IN  [ cli |-> [ s EXCEPT !.objects[s.state].dead_cards = @ \o cards ], outcome |-> "ok" ]

\* _cmd_undo: the last snapshot becomes the state
_cmd_undo(c) ==
    IF c.history = << >> THEN [ cli |-> c, outcome |-> "NothingToUndo" ]
    ELSE [ cli |-> [ c EXCEPT !.state = c.history[Len(c.history)],
                              !.history = SubSeq(@, 1, Len(@) - 1) ],
           outcome |-> "ok" ]

-----------------------------------------------------------------------------
(* Specification SpecCli: command lines typed to the shell                 *)

\* the command-line tokens of a list of cards
Typed(cards) == [ i \in 1..Len(cards) |-> card_to_str(cards[i]) ] \o << >>

\* the same with the last token mistyped: Xh is no card
Mistyped(cards) == SubSeq(Typed(cards), 1, Len(cards) - 1) \o << << "X", "h" >> >>

\* the three cards dealt on street k: 3d 3s 9c, 4d 4s Tc, ... 8d 8s Ac
StreetCards(k) == << Card(k, 1), Card(k, 3), Card(k + 6, 0) >>

\* the cards typed after `deal` at a round: those of its street
DealtAt(round_) == StreetCards(IF round_ < 1 THEN 1 ELSE IF round_ > 6 THEN 6 ELSE round_)

\* the tokens typed after `deal`: the three cards, or two of them only
DealArgs(typing, round_) ==
    IF typing = "cards" THEN Typed(DealtAt(round_))
    ELSE Typed(SubSeq(DealtAt(round_), 1, 2))

\* a card seen elsewhere: 2s
SeenCards == << Card(0, 3) >>

InitCli ==
    /\ cli = [ kind    |-> "OFCCli",
               state   |-> 1,
               history |-> << >>,
               objects |-> [ i \in ObjectIds |-> IF i = 1 THEN GameState ELSE NoObject ],
               past    |-> << >>,
               last    |-> [ cmd |-> "none", outcome |-> "none" ],
               played  |-> 0 ]
    /\ heap = EmptyHeap
    /\ pc = "shell"
    /\ call = NoCall
    /\ score = NoScore
    /\ comb = NoComb
    /\ SolveIdle

\* the command lines whose cards parse save a snapshot unless the count is
\* wrong: they are typed while the history has room
Room(parsed, n) == Len(parsed.cards) = n => Len(cli.history) < MaxHistory

CmdNew ==
    /\ pc = "shell"
    /\ Len(cli.history) < MaxHistory
    /\ \E d \in { _cmd_new(cli) } : cli' = Finished(cli, d.cli, "new", d.outcome)
    /\ UNCHANGED << heap, pc, call, score, comb, solve_vars >>

CmdInitial(args) ==
    /\ pc = "shell"
    /\ \E parsed \in { cards_from_str(args) } :
          IF parsed.raised # "none"
          THEN cli' = Finished(cli, cli, "initial", "InvalidCardFormat")
          ELSE /\ Room(parsed, 5)
               /\ \E d \in _cmd_initial(cli, parsed.cards) :
                     cli' = Finished(cli, d.cli, "initial", d.outcome)
    /\ UNCHANGED << heap, pc, call, score, comb, solve_vars >>

\* the cards typed after `deal` are those of the street the round stands for
CmdDeal(typing) ==
    /\ pc = "shell"
    /\ \E parsed \in { cards_from_str(DealArgs(typing, Live(cli).round_num)) } :
          IF parsed.raised # "none"
          THEN cli' = Finished(cli, cli, "deal", "InvalidCardFormat")
          ELSE /\ Room(parsed, 3)
               /\ \E d \in _cmd_deal(cli, parsed.cards) :
                     cli' = Finished(cli, d.cli, "deal", d.outcome)
    /\ UNCHANGED << heap, pc, call, score, comb, solve_vars >>

CmdDead(args) ==
    /\ pc = "shell"
    /\ \E parsed \in { cards_from_str(args) } :
          IF parsed.raised # "none"
          THEN cli' = Finished(cli, cli, "dead", "InvalidCardFormat")
          ELSE /\ Len(cli.history) < MaxHistory
               /\ \E d \in { _cmd_dead(cli, parsed.cards) } :
                     cli' = Finished(cli, d.cli, "dead", d.outcome)
    /\ UNCHANGED << heap, pc, call, score, comb, solve_vars >>

CmdUndo ==
    /\ pc = "shell"
    /\ \E d \in { _cmd_undo(cli) } : cli' = Finished(cli, d.cli, "undo", d.outcome)
    /\ UNCHANGED << heap, pc, call, score, comb, solve_vars >>

NextCli ==
    \/ CmdNew
    \/ \E args \in { Typed(Hand5), Mistyped(Hand5) } : CmdInitial(args)
    \/ \E typing \in { "cards", "short" } : CmdDeal(typing)
    \/ \E args \in { Typed(SeenCards), Mistyped(SeenCards) } : CmdDead(args)
    \/ CmdUndo

SpecCli == InitCli /\ [][NextCli]_vars

-----------------------------------------------------------------------------
(* The shell: a hand played through, undo, and commands that fail          *)

\* the 17 cards typed in a hand played straight through
TypedCards ==
    CardsOf(Hand5) \cup UNION { CardsOf(StreetCards(k)) : k \in 1..4 }

SnapshotsIntact ==
    /\ Len(cli.history) = Len(cli.past)
    /\ \A i \in 1..Len(cli.history) : cli.objects[cli.history[i]] = cli.past[i]

\* the commands that save a snapshot and went through
Saved(last) ==
    last.cmd \in { "new", "initial", "deal", "dead" } /\ last.outcome = "ok"

\* C29: `undo` right after a successful `new`, `initial`, `deal` or `dead`
\* restores the board, hand, dead cards and round number to their values
\* before that command; later changes to the live state never alter a saved
\* snapshot; n undos after n such commands restore the state from n commands
\* back; `undo` with an empty history changes nothing.
C29_UndoRestores ==
    [][ /\ SnapshotsIntact'
        /\ cli'.last.cmd = "undo" =>
              IF cli.history = << >>
              THEN /\ cli'.last.outcome = "NothingToUndo"
                   /\ Shown(cli') = Shown(cli)
              ELSE /\ cli'.last.outcome = "ok"
                   /\ Live(cli') = cli.past[Len(cli.past)]
                   /\ Shown(cli').history = SubSeq(cli.past, 1, Len(cli.past) - 1)
        /\ (Saved(cli.last) /\ Saved(cli'.last)) =>
              /\ Len(cli'.past) >= 2
              /\ cli'.past[Len(cli'.past)] = Live(cli)
              /\ cli'.past[Len(cli'.past) - 1] = cli.past[Len(cli.past)] ]_vars

\* a command that followed `initial` has been undone: the board of 5 cards,
\* the empty dead-card list and round 1 of before are back
C29_Witness ==
    /\ cli.last = [ cmd |-> "undo", outcome |-> "ok" ]
    /\ Len(cli.history) = 1
    /\ cli.past[1] = GameState
    /\ Len(all_cards(Live(cli).board)) = 5
    /\ Live(cli).dead_cards = << >>
    /\ Live(cli).round_num = 1

\* the exceptions the command loop of run catches and prints
Errors == { "InvalidCardFormat", "WrongHandSize", "NoValidPlacements", "RowFull" }

\* C30: a command that ends in an error (an `initial` or `deal` whose solve
\* fails, or any command given a malformed card token) leaves the board, the
\* hand, the dead cards, the round number and the undo history exactly as
\* they were before the command.
C30_ErrorLeavesStateAlone ==
    [][ cli'.last.outcome \in Errors => Shown(cli') = Shown(cli) ]_vars

====
